---- MODULE Spec2Model ----
(***************************************************************************)
(* sqleibniz: lexer (src/lexer/mod.rs), parser (src/parser/mod.rs) and the *)
(* driver that chains them (src/main.rs).                                  *)
(*                                                                         *)
(* Source text is a sequence of bytes (0..255).  A token is a record       *)
(*   [ttype, kw, text, start, end, line]                                   *)
(* where kw is the keyword enumerator of a Keyword token ("" otherwise)    *)
(* and text the payload bytes of Ident / String / Blob / Number / Boolean. *)
(* A diagnostic is a record [rule, msg, line, start, end, improved] where  *)
(* improved is <<>> (None) or <<[snippet, start]>> (Some).                 *)
(***************************************************************************)
EXTENDS Integers, Sequences, FiniteSets, TLC

VARIABLES
    source,   \* the byte buffer handed to Lexer::new
    lexer,    \* Lexer fields pos, line, line_pos, errors and run()'s local r
    parser,   \* Parser fields pos, errors and sql_stmt_list()'s local r
    toks,     \* the token list returned by Lexer::run (Parser.tokens)
    pc,       \* "lex" | "lexbreak" | "lexed" | "parse" | "done" | "panic" | "idle" |
              \* "filed" | "abort" | "exit" | "main" | "loop" | "initialize"
    documents, \* the texts the language client has sent: uri -> Option<latest text>
    server,   \* event_loop's locals tokens and errors, and the formatted_path of
              \* the notification being handled
    reply,    \* the response to the message handled last, None after a notification
    latest,   \* uri -> Option<(tokens, diagnostics)> of the last analysis of that
              \* document: the per-document state the specification describes
    args,     \* main's args (silent, ignore_config, disable) and config.disabled_rules
    files,    \* main's Vec<FileResult>, each with the content fs::read gives
    file,     \* the position of main's loop in files, counted from 1
    error_string_builder, \* the diagnostics Error::print has written to the builder
    status    \* the exit status of the process, None while it runs

lspVars == <<documents, server, reply, latest>>
cliVars == <<args, files, file, error_string_builder, status>>
vars == <<source, lexer, parser, toks, pc, documents, server, reply, latest,
          args, files, file, error_string_builder, status>>

(***************************************************************************)
(* Bytes                                                                   *)
(***************************************************************************)
\* sequencing of a step on the value of the step before it: `let v = ..; F(v)`
Then(v, F(_)) == F(v)

\* marker returned by a read outside the buffer (an index panic in Rust)
OOB == 0 - 1

IsDigit(c)    == c \in 48..57
IsHexDigit(c) == c \in 48..57 \/ c \in 97..102 \/ c \in 65..70
IsAlpha(c)    == c \in 97..122 \/ c \in 65..90

\* u8::to_ascii_lowercase / str::to_lowercase restricted to ASCII input
LowerByte(c) == IF c \in 65..90 THEN c + 32 ELSE c
Lower(s) == [i \in 1..Len(s) |-> LowerByte(s[i])]

\* char::is_whitespace for a char built from one byte (u8 as char)
IsWhitespaceChar(c) == c \in 9..13 \/ c = 32 \/ c = 133 \/ c = 160

SubSeqFrom(s, a, b) == IF a > b THEN <<>> ELSE SubSeq(s, a, b)

StartsWith(s, p) == Len(s) >= Len(p) /\ SubSeq(s, 1, Len(p)) = p

RECURSIVE Contains(_, _)
\* str::contains
Contains(s, p) ==
    IF Len(s) < Len(p) THEN FALSE
    ELSE IF SubSeq(s, 1, Len(p)) = p THEN TRUE
    ELSE Contains(Tail(s), p)

RECURSIVE Utf8Valid(_)
\* String::from_utf8(..).is_ok()
Utf8Valid(s) ==
    IF s = <<>> THEN TRUE
    ELSE LET b == s[1]
             n == Len(s)
             cont(i) == i <= n /\ s[i] \in 128..191
         IN  IF b < 128 THEN Utf8Valid(Tail(s))
             ELSE IF b \in 194..223 THEN cont(2) /\ Utf8Valid(SubSeqFrom(s, 3, n))
             ELSE IF b = 224 THEN n >= 2 /\ s[2] \in 160..191 /\ cont(3)
                                  /\ Utf8Valid(SubSeqFrom(s, 4, n))
             ELSE IF b = 237 THEN n >= 2 /\ s[2] \in 128..159 /\ cont(3)
                                  /\ Utf8Valid(SubSeqFrom(s, 4, n))
             ELSE IF b \in 225..239 THEN cont(2) /\ cont(3)
                                  /\ Utf8Valid(SubSeqFrom(s, 4, n))
             ELSE IF b = 240 THEN n >= 2 /\ s[2] \in 144..191 /\ cont(3) /\ cont(4)
                                  /\ Utf8Valid(SubSeqFrom(s, 5, n))
             ELSE IF b \in 241..243 THEN cont(2) /\ cont(3) /\ cont(4)
                                  /\ Utf8Valid(SubSeqFrom(s, 5, n))
             ELSE IF b = 244 THEN n >= 2 /\ s[2] \in 128..143 /\ cont(3) /\ cont(4)
                                  /\ Utf8Valid(SubSeqFrom(s, 5, n))
             ELSE FALSE

\* String::from_utf8(bytes).unwrap_or_default()
FromUtf8OrDefault(s) == IF Utf8Valid(s) THEN s ELSE <<>>

\* the three-byte UTF-8 encodings of Unicode White_Space characters
IsWs3(a, b, c) ==
    \/ a = 225 /\ b = 154 /\ c = 128
    \/ a = 226 /\ b = 128 /\ (c \in 128..138 \/ c \in 168..169 \/ c = 175)
    \/ a = 226 /\ b = 129 /\ c = 159
    \/ a = 227 /\ b = 128 /\ c = 128

RECURSIVE TrimEnd(_)
TrimEnd(s) ==
    LET n == Len(s) IN
    IF n >= 1 /\ (s[n] \in 9..13 \/ s[n] = 32) THEN TrimEnd(SubSeqFrom(s, 1, n - 1))
    ELSE IF n >= 2 /\ s[n - 1] = 194 /\ (s[n] = 133 \/ s[n] = 160)
         THEN TrimEnd(SubSeqFrom(s, 1, n - 2))
    ELSE IF n >= 3 /\ IsWs3(s[n - 2], s[n - 1], s[n]) THEN TrimEnd(SubSeqFrom(s, 1, n - 3))
    ELSE s

RECURSIVE TrimStart(_)
TrimStart(s) ==
    LET n == Len(s) IN
    IF n >= 1 /\ (s[1] \in 9..13 \/ s[1] = 32) THEN TrimStart(Tail(s))
    ELSE IF n >= 2 /\ s[1] = 194 /\ (s[2] = 133 \/ s[2] = 160)
         THEN TrimStart(SubSeqFrom(s, 3, n))
    ELSE IF n >= 3 /\ IsWs3(s[1], s[2], s[3]) THEN TrimStart(SubSeqFrom(s, 4, n))
    ELSE s

\* str::trim on a valid UTF-8 string
Trim(s) == TrimEnd(TrimStart(s))

(***************************************************************************)
(* Keyword table (types/keyword.rs): lowercase text -> enumerator          *)
(***************************************************************************)
KeywordTable ==
  <<
    [kw |-> "ABORT", text |-> <<97,98,111,114,116>>],
    [kw |-> "ACTION", text |-> <<97,99,116,105,111,110>>],
    [kw |-> "ADD", text |-> <<97,100,100>>],
    [kw |-> "AFTER", text |-> <<97,102,116,101,114>>],
    [kw |-> "ALL", text |-> <<97,108,108>>],
    [kw |-> "ALTER", text |-> <<97,108,116,101,114>>],
    [kw |-> "ALWAYS", text |-> <<97,108,119,97,121,115>>],
    [kw |-> "ANALYZE", text |-> <<97,110,97,108,121,122,101>>],
    [kw |-> "AND", text |-> <<97,110,100>>],
    [kw |-> "AS", text |-> <<97,115>>],
    [kw |-> "ASC", text |-> <<97,115,99>>],
    [kw |-> "ATTACH", text |-> <<97,116,116,97,99,104>>],
    [kw |-> "AUTOINCREMENT", text |-> <<97,117,116,111,105,110,99,114,101,109,101,110,116>>],
    [kw |-> "BEFORE", text |-> <<98,101,102,111,114,101>>],
    [kw |-> "BEGIN", text |-> <<98,101,103,105,110>>],
    [kw |-> "BETWEEN", text |-> <<98,101,116,119,101,101,110>>],
    [kw |-> "BY", text |-> <<98,121>>],
    [kw |-> "CASCADE", text |-> <<99,97,115,99,97,100,101>>],
    [kw |-> "CASE", text |-> <<99,97,115,101>>],
    [kw |-> "CAST", text |-> <<99,97,115,116>>],
    [kw |-> "CHECK", text |-> <<99,104,101,99,107>>],
    [kw |-> "COLLATE", text |-> <<99,111,108,108,97,116,101>>],
    [kw |-> "COLUMN", text |-> <<99,111,108,117,109,110>>],
    [kw |-> "COMMIT", text |-> <<99,111,109,109,105,116>>],
    [kw |-> "CONFLICT", text |-> <<99,111,110,102,108,105,99,116>>],
    [kw |-> "CONSTRAINT", text |-> <<99,111,110,115,116,114,97,105,110,116>>],
    [kw |-> "CREATE", text |-> <<99,114,101,97,116,101>>],
    [kw |-> "CROSS", text |-> <<99,114,111,115,115>>],
    [kw |-> "CURRENT", text |-> <<99,117,114,114,101,110,116>>],
    [kw |-> "CURRENT_DATE", text |-> <<99,117,114,114,101,110,116,95,100,97,116,101>>],
    [kw |-> "CURRENT_TIME", text |-> <<99,117,114,114,101,110,116,95,116,105,109,101>>],
    [kw |-> "CURRENT_TIMESTAMP", text |-> <<99,117,114,114,101,110,116,95,116,105,109,101,115,116,97,109,112>>],
    [kw |-> "DATABASE", text |-> <<100,97,116,97,98,97,115,101>>],
    [kw |-> "DEFAULT", text |-> <<100,101,102,97,117,108,116>>],
    [kw |-> "DEFERRABLE", text |-> <<100,101,102,101,114,114,97,98,108,101>>],
    [kw |-> "DEFERRED", text |-> <<100,101,102,101,114,114,101,100>>],
    [kw |-> "DELETE", text |-> <<100,101,108,101,116,101>>],
    [kw |-> "DESC", text |-> <<100,101,115,99>>],
    [kw |-> "DETACH", text |-> <<100,101,116,97,99,104>>],
    [kw |-> "DISTINCT", text |-> <<100,105,115,116,105,110,99,116>>],
    [kw |-> "DO", text |-> <<100,111>>],
    [kw |-> "DROP", text |-> <<100,114,111,112>>],
    [kw |-> "EACH", text |-> <<101,97,99,104>>],
    [kw |-> "ELSE", text |-> <<101,108,115,101>>],
    [kw |-> "END", text |-> <<101,110,100>>],
    [kw |-> "ESCAPE", text |-> <<101,115,99,97,112,101>>],
    [kw |-> "EXCEPT", text |-> <<101,120,99,101,112,116>>],
    [kw |-> "EXCLUDE", text |-> <<101,120,99,108,117,100,101>>],
    [kw |-> "EXCLUSIVE", text |-> <<101,120,99,108,117,115,105,118,101>>],
    [kw |-> "EXISTS", text |-> <<101,120,105,115,116,115>>],
    [kw |-> "EXPLAIN", text |-> <<101,120,112,108,97,105,110>>],
    [kw |-> "FAIL", text |-> <<102,97,105,108>>],
    [kw |-> "FILTER", text |-> <<102,105,108,116,101,114>>],
    [kw |-> "FIRST", text |-> <<102,105,114,115,116>>],
    [kw |-> "FOLLOWING", text |-> <<102,111,108,108,111,119,105,110,103>>],
    [kw |-> "FOR", text |-> <<102,111,114>>],
    [kw |-> "FOREIGN", text |-> <<102,111,114,101,105,103,110>>],
    [kw |-> "FROM", text |-> <<102,114,111,109>>],
    [kw |-> "FULL", text |-> <<102,117,108,108>>],
    [kw |-> "GENERATED", text |-> <<103,101,110,101,114,97,116,101,100>>],
    [kw |-> "GLOB", text |-> <<103,108,111,98>>],
    [kw |-> "GROUP", text |-> <<103,114,111,117,112>>],
    [kw |-> "GROUPS", text |-> <<103,114,111,117,112,115>>],
    [kw |-> "HAVING", text |-> <<104,97,118,105,110,103>>],
    [kw |-> "IF", text |-> <<105,102>>],
    [kw |-> "IGNORE", text |-> <<105,103,110,111,114,101>>],
    [kw |-> "IMMEDIATE", text |-> <<105,109,109,101,100,105,97,116,101>>],
    [kw |-> "IN", text |-> <<105,110>>],
    [kw |-> "INDEX", text |-> <<105,110,100,101,120>>],
    [kw |-> "INDEXED", text |-> <<105,110,100,101,120,101,100>>],
    [kw |-> "INITIALLY", text |-> <<105,110,105,116,105,97,108,108,121>>],
    [kw |-> "INNER", text |-> <<105,110,110,101,114>>],
    [kw |-> "INSERT", text |-> <<105,110,115,101,114,116>>],
    [kw |-> "INSTEAD", text |-> <<105,110,115,116,101,97,100>>],
    [kw |-> "INTERSECT", text |-> <<105,110,116,101,114,115,101,99,116>>],
    [kw |-> "INTO", text |-> <<105,110,116,111>>],
    [kw |-> "IS", text |-> <<105,115>>],
    [kw |-> "ISNULL", text |-> <<105,115,110,117,108,108>>],
    [kw |-> "JOIN", text |-> <<106,111,105,110>>],
    [kw |-> "KEY", text |-> <<107,101,121>>],
    [kw |-> "LAST", text |-> <<108,97,115,116>>],
    [kw |-> "LEFT", text |-> <<108,101,102,116>>],
    [kw |-> "LIKE", text |-> <<108,105,107,101>>],
    [kw |-> "LIMIT", text |-> <<108,105,109,105,116>>],
    [kw |-> "MATCH", text |-> <<109,97,116,99,104>>],
    [kw |-> "MATERIALIZED", text |-> <<109,97,116,101,114,105,97,108,105,122,101,100>>],
    [kw |-> "NATURAL", text |-> <<110,97,116,117,114,97,108>>],
    [kw |-> "NO", text |-> <<110,111>>],
    [kw |-> "NOT", text |-> <<110,111,116>>],
    [kw |-> "NOTHING", text |-> <<110,111,116,104,105,110,103>>],
    [kw |-> "NOTNULL", text |-> <<110,111,116,110,117,108,108>>],
    [kw |-> "NULL", text |-> <<110,117,108,108>>],
    [kw |-> "NULLS", text |-> <<110,117,108,108,115>>],
    [kw |-> "OF", text |-> <<111,102>>],
    [kw |-> "OFFSET", text |-> <<111,102,102,115,101,116>>],
    [kw |-> "ON", text |-> <<111,110>>],
    [kw |-> "OR", text |-> <<111,114>>],
    [kw |-> "ORDER", text |-> <<111,114,100,101,114>>],
    [kw |-> "OTHERS", text |-> <<111,116,104,101,114,115>>],
    [kw |-> "OUTER", text |-> <<111,117,116,101,114>>],
    [kw |-> "OVER", text |-> <<111,118,101,114>>],
    [kw |-> "PARTIAL", text |-> <<112,97,114,116,105,97,108>>],
    [kw |-> "PARTITION", text |-> <<112,97,114,116,105,116,105,111,110>>],
    [kw |-> "PLAN", text |-> <<112,108,97,110>>],
    [kw |-> "PRAGMA", text |-> <<112,114,97,103,109,97>>],
    [kw |-> "PRECEDING", text |-> <<112,114,101,99,101,100,105,110,103>>],
    [kw |-> "PRIMARY", text |-> <<112,114,105,109,97,114,121>>],
    [kw |-> "QUERY", text |-> <<113,117,101,114,121>>],
    [kw |-> "RAISE", text |-> <<114,97,105,115,101>>],
    [kw |-> "RANGE", text |-> <<114,97,110,103,101>>],
    [kw |-> "RECURSIVE", text |-> <<114,101,99,117,114,115,105,118,101>>],
    [kw |-> "REFERENCES", text |-> <<114,101,102,101,114,101,110,99,101,115>>],
    [kw |-> "REGEXP", text |-> <<114,101,103,101,120,112>>],
    [kw |-> "REINDEX", text |-> <<114,101,105,110,100,101,120>>],
    [kw |-> "RELEASE", text |-> <<114,101,108,101,97,115,101>>],
    [kw |-> "RENAME", text |-> <<114,101,110,97,109,101>>],
    [kw |-> "REPLACE", text |-> <<114,101,112,108,97,99,101>>],
    [kw |-> "RESTRICT", text |-> <<114,101,115,116,114,105,99,116>>],
    [kw |-> "RETURNING", text |-> <<114,101,116,117,114,110,105,110,103>>],
    [kw |-> "RIGHT", text |-> <<114,105,103,104,116>>],
    [kw |-> "ROLLBACK", text |-> <<114,111,108,108,98,97,99,107>>],
    [kw |-> "ROW", text |-> <<114,111,119>>],
    [kw |-> "ROWS", text |-> <<114,111,119,115>>],
    [kw |-> "SAVEPOINT", text |-> <<115,97,118,101,112,111,105,110,116>>],
    [kw |-> "SELECT", text |-> <<115,101,108,101,99,116>>],
    [kw |-> "SET", text |-> <<115,101,116>>],
    [kw |-> "SIMPLE", text |-> <<115,105,109,112,108,101>>],
    [kw |-> "STORED", text |-> <<115,116,111,114,101,100>>],
    [kw |-> "TABLE", text |-> <<116,97,98,108,101>>],
    [kw |-> "TEMP", text |-> <<116,101,109,112>>],
    [kw |-> "TEMPORARY", text |-> <<116,101,109,112,111,114,97,114,121>>],
    [kw |-> "THEN", text |-> <<116,104,101,110>>],
    [kw |-> "TIES", text |-> <<116,105,101,115>>],
    [kw |-> "TO", text |-> <<116,111>>],
    [kw |-> "TRANSACTION", text |-> <<116,114,97,110,115,97,99,116,105,111,110>>],
    [kw |-> "TRIGGER", text |-> <<116,114,105,103,103,101,114>>],
    [kw |-> "UNBOUNDED", text |-> <<117,110,98,111,117,110,100,101,100>>],
    [kw |-> "UNION", text |-> <<117,110,105,111,110>>],
    [kw |-> "UNIQUE", text |-> <<117,110,105,113,117,101>>],
    [kw |-> "UPDATE", text |-> <<117,112,100,97,116,101>>],
    [kw |-> "USING", text |-> <<117,115,105,110,103>>],
    [kw |-> "VACUUM", text |-> <<118,97,99,117,117,109>>],
    [kw |-> "VALUES", text |-> <<118,97,108,117,101,115>>],
    [kw |-> "VIEW", text |-> <<118,105,101,119>>],
    [kw |-> "VIRTUAL", text |-> <<118,105,114,116,117,97,108>>],
    [kw |-> "WHEN", text |-> <<119,104,101,110>>],
    [kw |-> "WHERE", text |-> <<119,104,101,114,101>>],
    [kw |-> "WINDOW", text |-> <<119,105,110,100,111,119>>],
    [kw |-> "WITH", text |-> <<119,105,116,104>>],
    [kw |-> "WITHOUT", text |-> <<119,105,116,104,111,117,116>>]
  >>

\* Keyword::from_str: case-insensitive lookup, "" when the word is no keyword
KeywordFromStr(s) ==
    Then({e \in {KeywordTable[i] : i \in DOMAIN KeywordTable} : e.text = Lower(s)},
         LAMBDA hits : IF hits = {} THEN "" ELSE (CHOOSE e \in hits : TRUE).kw)

TextTrue  == <<116, 114, 117, 101>>
TextFalse == <<102, 97, 108, 115, 101>>
\* "sqleibniz::"
TextSqleibnizPrefix == <<115, 113, 108, 101, 105, 98, 110, 105, 122, 58, 58>>
\* "expect"
TextExpect == <<101, 120, 112, 101, 99, 116>>

(***************************************************************************)
(* Tokens and diagnostics                                                  *)
(***************************************************************************)
Tok(ttype, kw, text, start, end, line) ==
    [ttype |-> ttype, kw |-> kw, text |-> text, start |-> start, end |-> end, line |-> line]

\* the synthetic token Parser::cur returns past the end of the token list
EofToken == Tok("Eof", "", <<>>, 0, 0, 0)

Diag(rule, msg, line, start, end) ==
    [rule |-> rule, msg |-> msg, line |-> line, start |-> start, end |-> end,
     improved |-> <<>>]

ImprovedLine(snippet, start) == <<[snippet |-> snippet, start |-> start]>>

(***************************************************************************)
(* Lexer                                                                   *)
(***************************************************************************)
\* Lexer::new
LexerNew ==
    [pos |-> 0, line |-> 0, line_pos |-> 0, r |-> <<>>, errors |-> <<>>, panic |-> FALSE]

\* is_eof with > in place of >=: the loop runs once more at the end of the buffer
LexIsEofLate(L) == L.pos > Len(source)

\* Lexer::is_eof
LexIsEof(L) == L.pos >= Len(source)

\* self.source.get(p): the byte at offset p, if any
ByteAt(p) == IF p >= 0 /\ p < Len(source) THEN source[p + 1] ELSE OOB

\* Lexer::cur: self.source[self.pos], an index panic outside the buffer
LexCur(L) == ByteAt(L.pos)

\* Lexer::is
LexIs(L, c) == ByteAt(L.pos) = c

\* Lexer::next_is
LexNextIs(L, c) == ByteAt(L.pos + 1) = c

\* Lexer::next
LexNext(L) == ByteAt(L.pos + 1)

\* Lexer::is_ident
LexIsIdent(c) == IsAlpha(c) \/ c = 95 \/ IsDigit(c)

\* Lexer::is_sqlite_num (on the current byte)
LexIsSqliteNum(c) ==
    c = 43 \/ c = 45 \/ c = 95 \/ c = 46 \/ c \in 97..102 \/ c \in 65..70 \/ IsDigit(c)

LexAdvanceNoReset(L) ==
    [L EXCEPT !.line     = IF LexIs(L, 10) THEN @ + 1 ELSE @,
              !.line_pos = @ + 1,
              !.pos      = @ + 1]

\* Lexer::advance
LexAdvance(L) ==
    [L EXCEPT !.line     = IF LexIs(L, 10) THEN @ + 1 ELSE @,
              !.line_pos = IF LexIs(L, 10) THEN 0 ELSE @ + 1,
              !.pos      = @ + 1]

\* Lexer::err
LexErr(L, msg, start, rule) == Diag(rule, msg, L.line, start, L.line_pos)

LexSingleWide(L, ttype) == Tok(ttype, "", <<>>, L.line_pos, L.line_pos + 2, L.line)

\* Lexer::single
LexSingle(L, ttype) == Tok(ttype, "", <<>>, L.line_pos, L.line_pos, L.line)

LexPush(L, tok) == [L EXCEPT !.r = Append(@, tok)]
LexPushErr(L, e) == [L EXCEPT !.errors = Append(@, e)]

RECURSIVE LexStringLoop(_, _, _)
\* the while loop of Lexer::string; start is the byte offset and line_start the
\* column of the opening quote
LexStringLoop(L, start, line_start) ==
    IF LexIsEof(L)
    THEN [ok |-> FALSE, lx |-> L,
          err |-> LexErr(L, "Impossible case", L.line_pos, "Unimplemented")]
    ELSE LET end  == L.line_pos
             line == L.line
             A    == LexAdvance(L)
         IN  IF LexIsEof(A) \/ LexIs(A, 10)
             THEN LET e == LexErr(A, "Unterminated String", line_start, "UnterminatedString")
                  IN  [ok |-> FALSE, lx |-> A,
                       err |-> [e EXCEPT !.end = e.end + 1, !.line = line,
                                         !.improved = ImprovedLine("'", e.end + 1)]]
             ELSE IF LexIs(A, 39)
             THEN [ok |-> TRUE, lx |-> A,
                   tok |-> Tok("String", "",
                               FromUtf8OrDefault(SubSeqFrom(source, start + 2, A.pos)),
                               line_start, end + 2, A.line)]
             ELSE LexStringLoop(A, start, line_start)

\* Lexer::string
LexString(L) == LexStringLoop(L, L.pos, L.line_pos)

(***************************************************************************)
(* Numeric literals                                                        *)
(***************************************************************************)
RECURSIVE StripUnderscore(_)
\* the filter_map of the number branch: drops every '_'
StripUnderscore(s) ==
    IF s = <<>> THEN <<>>
    ELSE IF s[1] = 95 THEN StripUnderscore(Tail(s))
    ELSE <<s[1]>> \o StripUnderscore(Tail(s))

RECURSIVE SkipDigits(_, _)
\* the first index >= i of s that holds no decimal digit
SkipDigits(s, i) == IF i <= Len(s) /\ IsDigit(s[i]) THEN SkipDigits(s, i + 1) ELSE i

\* str::parse::<f64>().is_ok(), for text without the letters of inf / nan:
\*   Sign? ( Digit+ | Digit+ '.' Digit* | Digit* '.' Digit+ ) ( [eE] Sign? Digit+ )?
DecValid(s) ==
    LET n  == Len(s)
        i0 == IF n >= 1 /\ (s[1] = 43 \/ s[1] = 45) THEN 2 ELSE 1
        i1 == SkipDigits(s, i0)
        hasDot == i1 <= n /\ s[i1] = 46
        i2 == IF hasDot THEN SkipDigits(s, i1 + 1) ELSE i1
        mantissaDigits == (i1 - i0) + (IF hasDot THEN i2 - i1 - 1 ELSE 0)
        hasExp == i2 <= n /\ (s[i2] = 101 \/ s[i2] = 69)
        i3 == IF hasExp /\ i2 + 1 <= n /\ (s[i2 + 1] = 43 \/ s[i2 + 1] = 45)
              THEN i2 + 2 ELSE i2 + 1
        i4 == SkipDigits(s, i3)
    IN  /\ mantissaDigits >= 1
        /\ IF hasExp THEN i4 > i3 /\ i4 = n + 1 ELSE i2 = n + 1

RECURSIVE StripLeadingZeros(_)
StripLeadingZeros(s) ==
    IF s # <<>> /\ s[1] = 48 THEN StripLeadingZeros(Tail(s)) ELSE s

HexValidOrEmpty(s) ==
    LET n == Len(s)
        signed == n >= 1 /\ (s[1] = 43 \/ s[1] = 45)
        neg == n >= 1 /\ s[1] = 45
        digits == IF signed THEN Tail(s) ELSE s
        sig == StripLeadingZeros(digits)
    IN  /\ \A i \in 1..Len(digits) : IsHexDigit(digits[i])
        /\ \/ Len(sig) < 16
           \/ /\ Len(sig) = 16
              /\ \/ sig[1] \in 48..55
                 \/ neg /\ sig[1] = 56 /\ \A i \in 2..16 : sig[i] = 48

\* i64::from_str_radix(s, 16).is_ok(): optional sign, at least one hex digit,
\* and a value in -2^63 .. 2^63-1
HexValid(s) ==
    LET n == Len(s)
        signed == n >= 1 /\ (s[1] = 43 \/ s[1] = 45)
        neg == n >= 1 /\ s[1] = 45
        digits == IF signed THEN Tail(s) ELSE s
        sig == StripLeadingZeros(digits)
    IN  /\ digits # <<>>
        /\ \A i \in 1..Len(digits) : IsHexDigit(digits[i])
        /\ \/ Len(sig) < 16
           \/ /\ Len(sig) = 16
              /\ \/ sig[1] \in 48..55
                 \/ neg /\ sig[1] = 56 /\ \A i \in 2..16 : sig[i] = 48

(***************************************************************************)
(* Lexer::run, one iteration of the dispatch loop                          *)
(***************************************************************************)
\* how an iteration leaves the match: through the advance at the bottom of the
\* loop, through `continue`, or through `break`
Bottom(L)   == [lx |-> LexAdvance(L), brk |-> FALSE]
Continue(L) == [lx |-> L, brk |-> FALSE]
Break(L)    == [lx |-> L, brk |-> TRUE]

LexPanic(L) == [L EXCEPT !.panic = TRUE]

RECURSIVE LexBlockComment(_)
\* lines 167-172: while !eof { advance; if is('*') && next_is('/') { break } }
LexBlockComment(L) ==
    IF LexIsEof(L) THEN L
    ELSE LET A == LexAdvance(L)
         IN  IF LexIs(A, 42) /\ LexNextIs(A, 47) THEN A ELSE LexBlockComment(A)

RECURSIVE LexSkipNonWhitespace(_)
\* lines 198-200: while !eof && !cur().is_whitespace() { advance }
LexSkipNonWhitespace(L) ==
    IF LexIsEof(L) THEN L
    ELSE IF LexCur(L) = OOB THEN LexPanic(L)
    ELSE IF IsWhitespaceChar(LexCur(L)) THEN L
    ELSE LexSkipNonWhitespace(LexAdvance(L))

RECURSIVE LexSkipLine(_)
\* lines 239-241: while !eof && !is('\n') { advance }
LexSkipLine(L) ==
    IF LexIsEof(L) \/ LexIs(L, 10) THEN L ELSE LexSkipLine(LexAdvance(L))

\* lines 195-242: the directive after an '@' inside a line comment; L is the
\* lexer just after the '@'
LexDirective(L) ==
    LET start == L.pos
        W == LexSkipNonWhitespace(L)
        instruction == FromUtf8OrDefault(SubSeqFrom(source, start + 1, W.pos))
        err == LexErr(W, "Unknown sqleibniz instruction", W.line_pos,
                      "BadSqleibnizInstruction")
        bad == [err EXCEPT !.start = start - 1, !.end = W.pos]
        function == Trim(SubSeqFrom(instruction, Len(TextSqleibnizPrefix) + 1,
                                    Len(instruction)))
        P == IF StartsWith(instruction, TextSqleibnizPrefix)
             THEN IF function = TextExpect
                  THEN LexPush(W, LexSingle(W, "InstructionExpect"))
                  ELSE LexPushErr(W, bad)
             ELSE LexPushErr(W, bad)
    IN  IF W.panic THEN W ELSE LexSkipLine(P)

RECURSIVE LexLineComment(_)
\* lines 191-246: the body of a `--` comment
LexLineComment(L) ==
    IF LexIsEof(L) THEN L
    ELSE IF LexIs(L, 10) THEN L
    ELSE IF LexIs(L, 64) THEN LexDirective(LexAdvance(L))
    ELSE LexLineComment(LexAdvance(L))

LexDashGoesOn(L) ==
    LET A == LexAdvance(L)
    IN  IF ~LexIs(A, 45)
        THEN Continue(LexPushErr(A, LexErr(A, "'-' is not a valid symbol at this point",
                                           A.line_pos, "Syntax")))
        ELSE Bottom(LexLineComment(LexAdvance(A)))

\* lines 176-247: the '-' branch
LexDash(L) ==
    LET A == LexAdvance(L)
    IN  IF ~LexIs(A, 45)
        THEN Break(LexPushErr(A, LexErr(A, "'-' is not a valid symbol at this point",
                                        A.line_pos, "Syntax")))
        ELSE Bottom(LexLineComment(LexAdvance(A)))

RECURSIVE LexNumLoop(_)
\* lines 300-302: while !eof && is_sqlite_num() { advance }
LexNumLoop(L) ==
    IF LexIsEof(L) THEN L
    ELSE IF LexCur(L) = OOB THEN LexPanic(L)
    ELSE IF LexIsSqliteNum(LexCur(L)) THEN LexNumLoop(LexAdvance(L))
    ELSE L

\* lines 267-362: the number / '.' branch
LexNumber(L) ==
    IF /\ LexIs(L, 46)
       /\ ~(LexNextIs(L, 101) \/ LexNextIs(L, 69))
       /\ ~(LexNext(L) = 95 \/ IsDigit(LexNext(L)))
    THEN Continue(LexAdvance(LexPush(L, Tok("Dot", "", <<>>, L.line_pos, L.line_pos, L.line))))
    ELSE LET line_start == L.line_pos
             is_hex == LexIs(L, 48) /\ (LexNextIs(L, 120) \/ LexNextIs(L, 88))
             H == IF is_hex THEN LexAdvance(LexAdvance(L)) ELSE L
             start == H.pos
             E == LexNumLoop(H)
             str == StripUnderscore(SubSeqFrom(source, start + 1, E.pos))
             valid == IF is_hex THEN HexValid(str) ELSE DecValid(str)
             msg == IF is_hex THEN "Bad hexadecimal numeric literal"
                    ELSE "Bad numeric literal"
         IN  IF E.panic THEN Continue(E)
             ELSE IF valid
             THEN Continue(LexPush(E, Tok("Number", "", str, line_start, E.line_pos, E.line)))
             ELSE Continue(LexPushErr(E, LexErr(E, msg, line_start, "InvalidNumericLiteral")))

\* the 0-based index of the first character of str that is no hex digit, -1 if none
FirstBadHex(str) ==
    LET bad == {i \in 1..Len(str) : ~IsHexDigit(str[i])}
    IN  IF bad = {} THEN 0 - 1 ELSE (CHOOSE i \in bad : \A j \in bad : i <= j) - 1

\* lines 364-418: the 'X' | 'x' branch
LexBlob(L) ==
    LET line_start == L.line_pos
        line == L.line
    IN  IF LexNextIs(L, 39)
        THEN LET S == LexString(LexAdvance(L))
             IN  IF S.ok
                 THEN LET str == S.tok.text
                          idx == FirstBadHex(str)
                          e == LexErr(S.lx, "Bad blob data", line_start + 2 + idx, "InvalidBlob")
                      IN  IF idx >= 0
                          THEN Break(LexPushErr(S.lx, [e EXCEPT !.end = line_start + 2 + idx]))
                          ELSE Bottom(LexPush(S.lx, Tok("Blob", "", str, S.tok.start,
                                                        S.tok.end, line)))
                 ELSE Bottom(LexPushErr(S.lx,
                         [LexErr(S.lx, "Unterminated blob string", line_start, "InvalidBlob")
                             EXCEPT !.line = line]))
        ELSE Bottom(LexPushErr(L, LexErr(L, "Malformed blob", L.line_pos, "InvalidBlob")))

RECURSIVE LexIdentLoop(_)
\* lines 423-425: while !eof && is_ident(cur()) { advance }
LexIdentLoop(L) ==
    IF LexIsEof(L) THEN L
    ELSE IF LexCur(L) = OOB THEN LexPanic(L)
    ELSE IF LexIsIdent(LexCur(L)) THEN LexIdentLoop(LexAdvance(L))
    ELSE L

\* lines 420-446: the identifier / keyword branch
LexIdent(L) ==
    LET start == L.pos
        line_start == L.line_pos
        E == LexIdentLoop(L)
        ident == FromUtf8OrDefault(SubSeqFrom(source, start + 1, E.pos))
        keyword == KeywordFromStr(ident)
        lower == Lower(ident)
        t == IF keyword # "" THEN Tok("Keyword", keyword, <<>>, line_start, E.line_pos, E.line)
             ELSE IF lower = TextTrue \/ lower = TextFalse
             THEN Tok("Boolean", "", lower, line_start, E.line_pos, E.line)
             ELSE Tok("Ident", "", ident, line_start, E.line_pos, E.line)
    IN  IF E.panic THEN Continue(E) ELSE Continue(LexPush(E, t))

\* the single-character punctuation arms, lines 253-265
PunctuationType(c) ==
    CASE c = 42 -> "Asterisk"
      [] c = 59 -> "Semicolon"
      [] c = 44 -> "Comma"
      [] c = 37 -> "Percent"
      [] c = 61 -> "Equal"
      [] c = 64 -> "At"
      [] c = 58 -> "Colon"
      [] c = 36 -> "Dollar"
      [] c = 63 -> "Question"
      [] c = 40 -> "BraceLeft"
      [] c = 41 -> "BraceRight"
      [] c = 91 -> "BracketLeft"
      [] c = 93 -> "BracketRight"
      [] OTHER  -> ""

\* lines 161-462: the match on the current byte plus the advance at the bottom
LexIter(L) ==
    LET c == LexCur(L)
    IN  IF c = OOB THEN Continue(LexPanic(L))
        ELSE IF c = 9 \/ c = 13 \/ c = 32 \/ c = 10 THEN Bottom(L)
        ELSE IF c = 47
        THEN Bottom(IF LexNextIs(L, 42) THEN LexBlockComment(L) ELSE L)
        ELSE IF c = 45 THEN LexDash(L)
        ELSE IF c = 39
        THEN LET S == LexString(L)
             IN  IF S.ok THEN Bottom(LexPush(S.lx, S.tok))
                 ELSE Bottom(LexPushErr(S.lx, S.err))
        ELSE IF PunctuationType(c) # "" THEN Bottom(LexPush(L, LexSingle(L, PunctuationType(c))))
        ELSE IF IsDigit(c) \/ c = 46 THEN LexNumber(L)
        ELSE IF c = 88 \/ c = 120 THEN LexBlob(L)
        ELSE IF IsAlpha(c) \/ c = 95 THEN LexIdent(L)
        ELSE Bottom(LexPushErr(L, LexErr(L, "Unknown character", L.line_pos,
                                         "UnknownCharacter")))


(***************************************************************************)
(* Parser primitives                                                       *)
(***************************************************************************)
\* a Type value to compare a token against: a payload-free kind or a keyword
T(ttype) == [ttype |-> ttype, kw |-> ""]
K(keyword) == [ttype |-> "Keyword", kw |-> keyword]

\* Option<_>
None == <<>>
Some(x) == <<x>>

\* Parser::new
ParserNew == [pos |-> 0, errors |-> <<>>, r |-> <<>>, panic |-> FALSE]

\* Parser::is_eof
IsEof(P) == P.pos >= Len(toks)

\* Parser::cur
Cur(P) == IF P.pos < Len(toks) THEN toks[P.pos + 1] ELSE EofToken

\* Parser::advance
Advance(P) == IF ~IsEof(P) THEN [P EXCEPT !.pos = @ + 1] ELSE P

\* Parser::is (Type equality on a payload-free kind or a keyword)
Is(P, t) == Cur(P).ttype = t.ttype /\ Cur(P).kw = t.kw

\* Parser::is_keyword
IsKeyword(P, keyword) == Is(P, K(keyword))

\* Parser::next_is
NextIs(P, t) ==
    /\ P.pos + 1 < Len(toks)
    /\ toks[P.pos + 2].ttype = t.ttype
    /\ toks[P.pos + 2].kw = t.kw

\* Parser::err
Err(msg, start, rule) == Diag(rule, msg, start.line, start.start, start.end)

PushErrFront(P, msg, start, rule) == [P EXCEPT !.errors = <<Err(msg, start, rule)>> \o @]

\* Parser::push_err, and self.errors.push(err)
PushErr(P, msg, start, rule) == [P EXCEPT !.errors = Append(@, Err(msg, start, rule))]

\* todo!() / unwrap() on None: the thread panics
Panic(P) == [P EXCEPT !.panic = TRUE]

RECURSIVE SkipUntilSemicolonOrEof(_)
\* Parser::skip_until_semicolon_or_eof
SkipUntilSemicolonOrEof(P) ==
    IF ~IsEof(P) /\ ~Is(P, T("Semicolon")) THEN SkipUntilSemicolonOrEof(Advance(P)) ELSE P

\* consume without the rewrite of a missing Semicolon
ConsumeSyntaxOnly(P, t) ==
    IF ~Is(P, t)
    THEN LET cur == Cur(P)
             err == Err(IF cur.ttype = "Eof" THEN "Unexpected End of input"
                        ELSE "Unexpected Token", cur, "Syntax")
         IN  Advance([P EXCEPT !.errors = Append(@, err)])
    ELSE Advance(P)

\* Parser::consume
Consume(P, t) ==
    IF ~Is(P, t)
    THEN LET cur == Cur(P)
             err == Err(IF cur.ttype = "Eof" THEN "Unexpected End of input"
                        ELSE "Unexpected Token", cur, "Syntax")
             e == IF t = T("Semicolon")
                  THEN [err EXCEPT !.msg = "Missing semicolon", !.rule = "Semicolon",
                                   !.improved = ImprovedLine(";", Cur(P).end)]
                  ELSE err
         IN  Advance([P EXCEPT !.errors = Append(@, e)])
    ELSE Advance(P)

\* Parser::consume_keyword
ConsumeKeyword(P, keyword) == Consume(P, K(keyword))

\* Parser::expect_end
ExpectEnd(P) ==
    IF ~Is(P, T("Semicolon"))
    THEN Advance(PushErr(P, "Unexpected Statement Continuation", Cur(P), "Syntax"))
    ELSE P

\* Parser::consume_ident: [p, v] with v the Option<String>
ConsumeIdent(P) ==
    IF Cur(P).ttype = "Ident"
    THEN [p |-> Advance(P), v |-> Some(Cur(P).text)]
    ELSE [p |-> Advance(PushErr(P, "Unexpected Token", Cur(P), "Syntax")), v |-> None]

\* the value of an Option-returning parser function: the parser afterwards and
\* the Option
Ret(P, v) == [p |-> P, v |-> v]

IsLiteralStart(tok) ==
    \/ tok.ttype \in {"String", "Number", "Blob", "Boolean"}
    \/ tok.ttype = "Keyword"
       /\ tok.kw \in {"NULL", "CURRENT_TIME", "CURRENT_DATE", "CURRENT_TIMESTAMP"}

(***************************************************************************)
(* Parser sub-grammars                                                     *)
(***************************************************************************)
\* Parser::literal_value
LiteralValue(P) ==
    IF IsLiteralStart(Cur(P))
    THEN Ret(Advance(P), Some([type |-> "Literal", t |-> Cur(P)]))
    ELSE Ret(Advance(PushErr(P, "Unexpected Token", Cur(P), "Syntax")), None)

ExprSilentBind(P) ==
    LET e == [type |-> "Expr", t |-> Cur(P), literal |-> None, bind |-> None,
              schema |-> None, table |-> None, column |-> None]
        cur == Cur(P)
    IN  IF IsLiteralStart(cur)
        THEN Then(LiteralValue(P), LAMBDA L :
                  Ret(L.p, Some([e EXCEPT !.literal =
                                    IF L.v = None THEN None ELSE Some(L.v[1].t)])))
        ELSE IF cur.ttype = "Question"
        THEN Then(Advance(P), LAMBDA A :
             Then(IF Cur(A).ttype = "Number" THEN LiteralValue(A) ELSE Ret(A, None), LAMBDA L :
                  Ret(L.p, Some([e EXCEPT !.bind =
                                    Some([type |-> "BindParameter", t |-> cur,
                                          counter |-> L.v, name |-> None])]))))
        ELSE IF cur.ttype \in {"Colon", "At", "Dollar"}
        THEN Then(Advance(P), LAMBDA A :
                  IF Cur(A).ttype = "Ident"
                  THEN Ret(Advance(A),
                           Some([e EXCEPT !.bind =
                                    Some([type |-> "BindParameter", t |-> cur,
                                          counter |-> None, name |-> Some(Cur(A).text)])]))
                  ELSE Ret(Advance(A), None))
        ELSE IF cur.ttype = "Ident"
        THEN Ret(Panic(P), None)
        ELSE Ret(Advance(PushErr(P, "Invalid construct", cur, "Syntax")), None)

\* Parser::expr
Expr(P) ==
    LET e == [type |-> "Expr", t |-> Cur(P), literal |-> None, bind |-> None,
              schema |-> None, table |-> None, column |-> None]
        cur == Cur(P)
    IN  IF IsLiteralStart(cur)
        THEN Then(LiteralValue(P), LAMBDA L :
                  Ret(L.p, Some([e EXCEPT !.literal =
                                    IF L.v = None THEN None ELSE Some(L.v[1].t)])))
        ELSE IF cur.ttype = "Question"
        THEN Then(Advance(P), LAMBDA A :
             Then(IF Cur(A).ttype = "Number" THEN LiteralValue(A) ELSE Ret(A, None), LAMBDA L :
                  Ret(L.p, Some([e EXCEPT !.bind =
                                    Some([type |-> "BindParameter", t |-> cur,
                                          counter |-> L.v, name |-> None])]))))
        ELSE IF cur.ttype \in {"Colon", "At", "Dollar"}
        THEN Then(Advance(P), LAMBDA A :
                  IF Cur(A).ttype = "Ident"
                  THEN Ret(Advance(A),
                           Some([e EXCEPT !.bind =
                                    Some([type |-> "BindParameter", t |-> cur,
                                          counter |-> None, name |-> Some(Cur(A).text)])]))
                  ELSE Ret(Advance(PushErr(A, "Invalid bind parameter", cur, "Syntax")), None))
        ELSE IF cur.ttype = "Ident"
        THEN Ret(Panic(P), None)
        ELSE Ret(Advance(PushErr(P, "Invalid construct", cur, "Syntax")), None)

\* SchemaTableContainer::Table / ::SchemaAndTable
Table(name) == [kind |-> "Table", schema |-> <<>>, table |-> name]
SchemaAndTable(schema, table) == [kind |-> "SchemaAndTable", schema |-> schema, table |-> table]

MalformedName(target_name) ==
    IF target_name = "pragma" THEN "Malformed pragma name" ELSE "Malformed table name"

\* Parser::schema_table_container; target_name is "pragma" or "table" (the
\* unwrap_or_else default)
SchemaTableContainer(P, target_name) ==
    LET cur == Cur(P)
    IN  IF cur.ttype = "Ident" /\ NextIs(P, T("Dot"))
        THEN Then(Advance(Advance(P)), LAMBDA A :
                  IF Cur(A).ttype = "Ident" \/ Cur(A).ttype = "String"
                  THEN Ret(Advance(A), Some(SchemaAndTable(cur.text, Cur(A).text)))
                  ELSE Ret(Advance(PushErr(A, MalformedName(target_name), Cur(A), "Syntax")),
                           None))
        ELSE IF cur.ttype = "Ident" \/ cur.ttype = "String"
        THEN Ret(Advance(P), Some(Table(cur.text)))
        ELSE Ret(Advance(PushErr(P, MalformedName(target_name), cur, "Syntax")), None)

\* Parser::conflict_clause: [p, v] with v the Option<Keyword>
ConflictClause(P) ==
    IF IsKeyword(P, "ON")
    THEN Then(ConsumeKeyword(Advance(P), "CONFLICT"), LAMBDA A :
         Then(Cur(A), LAMBDA cur :
              IF cur.ttype = "Keyword"
                 /\ cur.kw \in {"ROLLBACK", "ABORT", "FAIL", "IGNORE", "REPLACE"}
              THEN Ret(Advance(A), Some(cur.kw))
              ELSE Ret(Advance(PushErr(A, "Unexpected Keyword", cur, "Syntax")), None)))
    ELSE Ret(P, None)

\* ForeignKeyClause { .. } as initialised at the top of foreign_key_clause
ForeignKeyClauseNew ==
    [foreign_table |-> <<>>, references_columns |-> <<>>, on_delete |-> None,
     on_update |-> None, match_type |-> None, deferrable |-> FALSE,
     initially_deferred |-> FALSE]

\* lines 1307-1347: the action after ON DELETE / ON UPDATE
ForeignKeyAction(P) ==
    IF IsKeyword(P, "CASCADE") THEN Ret(Advance(P), Some("Cascade"))
    ELSE IF IsKeyword(P, "RESTRICT") THEN Ret(Advance(P), Some("Restrict"))
    ELSE IF IsKeyword(P, "NO")
    THEN Ret(ConsumeKeyword(Advance(P), "ACTION"), Some("NoAction"))
    ELSE IF IsKeyword(P, "SET")
    THEN Then(Advance(P), LAMBDA A :
              IF IsKeyword(A, "NULL") THEN Ret(Advance(A), Some("SetNull"))
              ELSE Ret(Advance(ConsumeKeyword(A, "DEFAULT")), Some("SetDefault")))
    ELSE Ret(Advance(PushErr(P, "Unexpected Token", Cur(P), "Syntax")), None)

RECURSIVE ForeignKeyClauseOnAndMatch(_, _)
\* Parser::foreign_key_clause_on_and_match: [p, fk]
ForeignKeyClauseOnAndMatch(P, fk) ==
    IF P.panic THEN [p |-> P, fk |-> fk]
    ELSE IF IsKeyword(P, "ON")
    THEN Then(Advance(P), LAMBDA A :
         Then(ForeignKeyAction(Advance(
                  IF IsKeyword(A, "DELETE") \/ IsKeyword(A, "UPDATE") THEN A
                  ELSE PushErr(A, "Unexpected Token", Cur(A), "Syntax"))), LAMBDA R :
              ForeignKeyClauseOnAndMatch(
                  R.p, IF IsKeyword(A, "DELETE") THEN [fk EXCEPT !.on_delete = R.v]
                       ELSE [fk EXCEPT !.on_update = R.v])))
    ELSE IF IsKeyword(P, "MATCH")
    THEN Then(Advance(P), LAMBDA A :
              IF IsKeyword(A, "FULL") \/ IsKeyword(A, "PARTIAL") \/ IsKeyword(A, "SIMPLE")
              THEN ForeignKeyClauseOnAndMatch(
                       Advance(A),
                       [fk EXCEPT !.match_type =
                           Some(IF IsKeyword(A, "FULL") THEN "Full"
                                ELSE IF IsKeyword(A, "PARTIAL") THEN "Partial"
                                ELSE "Simple")])
              ELSE [p |-> Panic(A), fk |-> fk])
    ELSE [p |-> P, fk |-> fk]

RECURSIVE ReferencesColumns(_, _)
\* lines 1392-1404: the loop over the referenced column names; ok is FALSE when
\* consume_ident()? returned early
ReferencesColumns(P, cols) ==
    Then(ConsumeIdent(P), LAMBDA I :
         IF I.v = None THEN [p |-> I.p, cols |-> cols, ok |-> FALSE]
         ELSE IF Is(I.p, T("Comma")) THEN ReferencesColumns(Advance(I.p), Append(cols, I.v[1]))
         ELSE [p |-> I.p, cols |-> Append(cols, I.v[1]), ok |-> TRUE])

\* [NOT] DEFERRABLE without `if !fk.deferrable { fk.initially_deferred = false }`
ForeignKeyDeferrableNoClear(P, fk) ==
    IF IsKeyword(P, "NOT") \/ IsKeyword(P, "DEFERRABLE")
    THEN Then(ConsumeKeyword(IF IsKeyword(P, "NOT") THEN Advance(P) ELSE P, "DEFERRABLE"),
              LAMBDA A :
         Then(Advance(A), LAMBDA B :
              [p |-> IF ~IsKeyword(A, "INITIALLY") THEN A
                     ELSE IF IsKeyword(B, "DEFERRED") \/ IsKeyword(B, "IMMEDIATE")
                     THEN Advance(B)
                     ELSE Advance(PushErr(B, "Unexpected Keyword", Cur(B), "Syntax")),
               fk |-> [fk EXCEPT !.deferrable = ~IsKeyword(P, "NOT"),
                                 !.initially_deferred =
                                     /\ IsKeyword(A, "INITIALLY")
                                     /\ IsKeyword(B, "DEFERRED")]]))
    ELSE [p |-> P, fk |-> fk]

\* lines 1411-1444: [NOT] DEFERRABLE [INITIALLY DEFERRED|IMMEDIATE]
ForeignKeyDeferrable(P, fk) ==
    IF IsKeyword(P, "NOT") \/ IsKeyword(P, "DEFERRABLE")
    THEN Then(ConsumeKeyword(IF IsKeyword(P, "NOT") THEN Advance(P) ELSE P, "DEFERRABLE"),
              LAMBDA A :
         Then(Advance(A), LAMBDA B :
              [p |-> IF ~IsKeyword(A, "INITIALLY") THEN A
                     ELSE IF IsKeyword(B, "DEFERRED") \/ IsKeyword(B, "IMMEDIATE")
                     THEN Advance(B)
                     ELSE Advance(PushErr(B, "Unexpected Keyword", Cur(B), "Syntax")),
               fk |-> [fk EXCEPT !.deferrable = ~IsKeyword(P, "NOT"),
                                 !.initially_deferred =
                                     /\ ~IsKeyword(P, "NOT")
                                     /\ IsKeyword(A, "INITIALLY")
                                     /\ IsKeyword(B, "DEFERRED")]]))
    ELSE [p |-> P, fk |-> fk]

\* Parser::foreign_key_clause
ForeignKeyClause(P) ==
    Then(ConsumeIdent(ConsumeKeyword(P, "REFERENCES")), LAMBDA I :
    IF I.v = None THEN Ret(I.p, None)
    ELSE
    Then(IF Is(I.p, T("BraceLeft")) THEN ReferencesColumns(Advance(I.p), <<>>)
         ELSE [p |-> I.p, cols |-> <<>>, ok |-> TRUE], LAMBDA C :
    IF ~C.ok THEN Ret(C.p, None)
    ELSE
    Then(ForeignKeyClauseOnAndMatch(
             IF Is(I.p, T("BraceLeft")) THEN Consume(C.p, T("BraceRight")) ELSE C.p,
             [ForeignKeyClauseNew EXCEPT !.foreign_table = I.v[1],
                                         !.references_columns = C.cols]), LAMBDA M :
    IF M.p.panic THEN Ret(M.p, None)
    ELSE
    Then(ForeignKeyDeferrable(M.p, M.fk), LAMBDA F : Ret(F.p, Some(F.fk))))))

(***************************************************************************)
(* Column definitions                                                      *)
(***************************************************************************)
TextVARCHAR == <<86, 65, 82, 67, 72, 65, 82>>
TextCLOB    == <<67, 76, 79, 66>>
TextTEXT    == <<84, 69, 88, 84>>
TextBLOB    == <<66, 76, 79, 66>>
TextREAL    == <<82, 69, 65, 76>>
TextFLOA    == <<70, 76, 79, 65>>
TextDOUB    == <<68, 79, 85, 66>>
TextINT     == <<73, 78, 84>>
TextINTEGER == <<73, 78, 84, 69, 71, 69, 82>>

StorageClassBlobFirst(s) ==
    IF s = <<>> \/ Contains(s, TextBLOB) THEN "Blob"
    ELSE IF Contains(s, TextVARCHAR) \/ Contains(s, TextCLOB) \/ Contains(s, TextTEXT) THEN "Text"
    ELSE IF Contains(s, TextREAL) \/ Contains(s, TextFLOA) \/ Contains(s, TextDOUB) THEN "Real"
    ELSE IF Contains(s, TextINT) THEN "Integer"
    ELSE "Integer"

\* SqliteStorageClass::from_str
StorageClassFromStr(s) ==
    IF Contains(s, TextVARCHAR) \/ Contains(s, TextCLOB) \/ Contains(s, TextTEXT) THEN "Text"
    ELSE IF s = <<>> \/ Contains(s, TextBLOB) THEN "Blob"
    ELSE IF Contains(s, TextREAL) \/ Contains(s, TextFLOA) \/ Contains(s, TextDOUB) THEN "Real"
    ELSE IF Contains(s, TextINT) THEN "Integer"
    ELSE "Integer"

\* SqliteStorageClass::from_str_strict
StorageClassFromStrStrict(s) ==
    IF s = TextTEXT THEN Some("Text")
    ELSE IF s = TextBLOB THEN Some("Blob")
    ELSE IF s = TextREAL THEN Some("Real")
    ELSE IF s = TextINT \/ s = TextINTEGER THEN Some("Integer")
    ELSE IF Contains(s, TextVARCHAR) THEN Some("Text")
    ELSE None

\* lines 1482-1497 and 1501-1516: a Number, or a Syntax diagnostic; advance either way
TypeNameNumber(P) ==
    IF Cur(P).ttype = "Number" THEN Advance(P)
    ELSE Advance(PushErr(P, "Unexpected Token", Cur(P), "Syntax"))

\* lines 1461-1538: the optional type name; [p, type_name]
ColumnDefTypeName(P) ==
    IF Cur(P).ttype = "Ident"
    THEN Then(Advance(IF StorageClassFromStrStrict(Cur(P).text) = None
                      THEN PushErr(P, "Type is not a sqlite type and thus will be of type INTEGER",
                                   Cur(P), "Quirk")
                      ELSE P), LAMBDA B :
         Then(TypeNameNumber(Advance(B)), LAMBDA C :
              [p |-> IF Is(B, T("BraceLeft"))
                     THEN Consume(IF Is(C, T("Comma")) THEN TypeNameNumber(Advance(C)) ELSE C,
                                  T("BraceRight"))
                     ELSE B,
               type_name |-> Some(StorageClassFromStr(Cur(P).text))]))
    ELSE Then(IF P.pos = 0 THEN 0 ELSE P.pos - 1, LAMBDA i :
              [p |-> PushErr(P, "Possibly unintended flexible typed column",
                             IF i < Len(toks) THEN toks[i + 1] ELSE Cur(P), "Quirk"),
               type_name |-> None])

IsConstraintStart(tok) ==
    /\ tok.ttype = "Keyword"
    /\ tok.kw \in {"CONSTRAINT", "PRIMARY", "NOT", "UNIQUE", "CHECK", "DEFAULT", "COLLATE",
                   "REFERENCES", "GENERATED", "AS"}

\* Option<Keyword> of the current token when it is one of ks; [p, v]
OptionalKeyword(P, ks) ==
    IF Cur(P).ttype = "Keyword" /\ Cur(P).kw \in ks THEN Ret(Advance(P), Some(Cur(P).kw))
    ELSE Ret(P, None)

\* lines 1564-1673: one constraint; [p, v, ok] where ok is FALSE when a `?`
\* made column_def return None
ColumnConstraint(P) ==
    LET R(Q, v) == [p |-> Q, v |-> v, ok |-> TRUE]
        Fail(Q) == [p |-> Q, v |-> None, ok |-> FALSE]
    IN  IF IsKeyword(P, "PRIMARY")
        THEN Then(OptionalKeyword(ConsumeKeyword(Advance(P), "KEY"), {"ASC", "DESC"}),
                  LAMBDA O :
             Then(ConflictClause(O.p), LAMBDA C :
                  R(IF IsKeyword(C.p, "AUTOINCREMENT") THEN Advance(C.p) ELSE C.p,
                    Some([kind |-> "PrimaryKey", asc_desc |-> O.v, on_conflict |-> C.v,
                          autoincrement |-> IsKeyword(C.p, "AUTOINCREMENT")]))))
        ELSE IF IsKeyword(P, "NOT")
        THEN Then(ConflictClause(ConsumeKeyword(Advance(P), "NULL")), LAMBDA C :
                  R(C.p, Some([kind |-> "NotNull", on_conflict |-> C.v])))
        ELSE IF IsKeyword(P, "UNIQUE")
        THEN Then(ConflictClause(Advance(P)), LAMBDA C :
                  R(C.p, Some([kind |-> "Unique", on_conflict |-> C.v])))
        ELSE IF IsKeyword(P, "CHECK")
        THEN Then(Expr(Consume(Advance(P), T("BraceLeft"))), LAMBDA E :
                  IF E.p.panic \/ E.v = None THEN Fail(E.p)
                  ELSE R(Consume(E.p, T("BraceRight")),
                         Some([kind |-> "Check", expr |-> E.v[1]])))
        ELSE IF IsKeyword(P, "DEFAULT")
        THEN Then(Advance(P), LAMBDA A :
                  IF Is(A, T("BraceLeft"))
                  THEN Then(Expr(Advance(A)), LAMBDA E :
                            IF E.p.panic THEN Fail(E.p)
                            ELSE R(Consume(E.p, T("BraceRight")),
                                   Some([kind |-> "Default", literal |-> None, expr |-> E.v])))
                  ELSE Then(LiteralValue(A), LAMBDA L :
                            R(L.p, Some([kind |-> "Default", literal |-> L.v,
                                         expr |-> None]))))
        ELSE IF IsKeyword(P, "COLLATE")
        THEN Then(ConsumeIdent(Advance(P)), LAMBDA I :
                  IF I.v = None THEN Fail(I.p)
                  ELSE R(I.p, Some([kind |-> "Collate", name |-> I.v[1]])))
        ELSE IF IsKeyword(P, "REFERENCES")
        THEN Then(ForeignKeyClause(P), LAMBDA F :
                  IF F.v = None THEN Fail(F.p)
                  ELSE R(F.p, Some([kind |-> "ForeignKey", fk |-> F.v[1]])))
        ELSE IF IsKeyword(P, "GENERATED") \/ IsKeyword(P, "AS")
        THEN Then(Expr(Consume(ConsumeKeyword(IF IsKeyword(P, "GENERATED")
                                              THEN ConsumeKeyword(Advance(P), "ALWAYS")
                                              ELSE P, "AS"),
                               T("BraceLeft"))), LAMBDA E :
                  IF E.p.panic THEN Fail(E.p)
                  ELSE IF E.v = None THEN Fail(Panic(E.p))
                  ELSE Then(OptionalKeyword(Consume(E.p, T("BraceRight")),
                                            {"STORED", "VIRTUAL"}), LAMBDA O :
                            R(O.p, Some([kind |-> IF IsKeyword(P, "GENERATED")
                                                  THEN "Generated" ELSE "As",
                                         expr |-> E.v[1], stored_virtual |-> O.v]))))
        ELSE R(P, None)

RECURSIVE ColumnConstraints(_, _)
\* lines 1541-1678: the column-constraint loop; [p, constraints, ok]
ColumnConstraints(P, cs) ==
    IF ~IsEof(P) /\ IsConstraintStart(Cur(P))
    THEN Then(ColumnConstraint(IF IsKeyword(P, "CONSTRAINT") THEN ConsumeIdent(Advance(P)).p
                               ELSE P), LAMBDA C :
              IF ~C.ok THEN [p |-> C.p, constraints |-> cs, ok |-> FALSE]
              ELSE ColumnConstraints(C.p, IF C.v = None THEN cs ELSE Append(cs, C.v[1])))
    ELSE [p |-> P, constraints |-> cs, ok |-> TRUE]

\* Parser::column_def
ColumnDef(P) ==
    Then(ConsumeIdent(P), LAMBDA I :
    IF I.v = None THEN Ret(I.p, None)
    ELSE
    Then(ColumnDefTypeName(I.p), LAMBDA N :
    Then(ColumnConstraints(N.p, <<>>), LAMBDA C :
    IF ~C.ok THEN Ret(C.p, None)
    ELSE Ret(C.p, Some([type |-> "ColumnDef", t |-> Cur(P), name |-> I.v[1],
                        type_name |-> N.type_name, constraints |-> C.constraints])))))

(***************************************************************************)
(* Statements                                                              *)
(***************************************************************************)
\* Parser::pragma_stmt
PragmaStmt(P) ==
    LET \* lines 396-412 / 415-431: the value after '=' or '('
        Value(Q) == Then(Advance(Q), LAMBDA A :
                         IF Cur(A).ttype \in {"String", "Number", "Ident", "Keyword"} THEN A
                         ELSE Advance(PushErr(A, "Bad pragma value", Cur(A), "Syntax")))
        node(name, inv) == [type |-> "Pragma", t |-> Cur(P), name |-> name, invocation |-> inv]
    IN  Then(SchemaTableContainer(Advance(P), "pragma"), LAMBDA S :
        IF S.v = None THEN Ret(S.p, None)
        ELSE IF Is(S.p, T("Semicolon"))
        THEN Ret(ExpectEnd(S.p), Some(node(S.v[1], [kind |-> "Query"])))
        ELSE IF Is(S.p, T("Equal"))
        THEN Then(Value(S.p), LAMBDA V :
                  Ret(ExpectEnd(Advance(V)),
                      Some(node(S.v[1], [kind |-> "Assign", value |-> Cur(V)]))))
        ELSE IF Is(S.p, T("BraceLeft"))
        THEN Then(Value(S.p), LAMBDA V :
                  Ret(ExpectEnd(Consume(Advance(V), T("BraceRight"))),
                      Some(node(S.v[1], [kind |-> "Call", value |-> Cur(V)]))))
        ELSE Ret(Advance(PushErr(S.p, "Bad pragma value", Cur(S.p), "Syntax")), None))

\* nodes::Alter as initialised at the top of alter_stmt
AlterNew(t) ==
    [type |-> "Alter", t |-> t, target |-> Table(<<>>), rename_to |-> None,
     rename_column_target |-> None, new_column_name |-> None, add_column |-> None,
     drop_column |-> None]

\* the optional COLUMN keyword of the RENAME / ADD / DROP arms
SkipColumn(P) == IF Is(P, K("COLUMN")) THEN Advance(P) ELSE P

\* Parser::alter_stmt
AlterStmt(P) ==
    Then(SchemaTableContainer(Consume(Advance(P), K("TABLE")), "table"), LAMBDA S :
    IF S.v = None THEN Ret(S.p, None)
    ELSE
    Then([AlterNew(Cur(P)) EXCEPT !.target = S.v[1]], LAMBDA a :
    IF IsKeyword(S.p, "RENAME")
    THEN Then(Advance(S.p), LAMBDA B :
              IF Is(B, K("TO"))
              THEN Then(ConsumeIdent(Advance(B)), LAMBDA I :
                        IF I.v = None THEN Ret(I.p, None)
                        ELSE Ret(ExpectEnd(I.p), Some([a EXCEPT !.rename_to = I.v])))
              ELSE Then(ConsumeIdent(SkipColumn(B)), LAMBDA I :
                   Then(ConsumeIdent(Consume(I.p, K("TO"))), LAMBDA J :
                        Ret(ExpectEnd(J.p),
                            Some([a EXCEPT !.rename_column_target = I.v,
                                           !.new_column_name = J.v])))))
    ELSE IF IsKeyword(S.p, "ADD")
    THEN Then(ColumnDef(SkipColumn(Advance(S.p))), LAMBDA C :
              IF C.p.panic THEN Ret(C.p, None)
              ELSE Ret(ExpectEnd(C.p), Some([a EXCEPT !.add_column = C.v])))
    ELSE IF IsKeyword(S.p, "DROP")
    THEN Then(ConsumeIdent(SkipColumn(Advance(S.p))), LAMBDA I :
              Ret(ExpectEnd(I.p), Some([a EXCEPT !.drop_column = I.v])))
    ELSE Ret(Advance(PushErr(S.p, "Unexpected Token", Cur(S.p), "Syntax")), None)))

\* Parser::reindex_stmt
ReindexStmt(P) ==
    LET node(target) == [type |-> "Reindex", t |-> Cur(P), target |-> target]
    IN  Then(Advance(P), LAMBDA A :
             IF Is(A, T("Semicolon")) THEN Ret(A, Some(node(None)))
             ELSE Then(SchemaTableContainer(A, "table"), LAMBDA S :
                       Ret(ExpectEnd(S.p), Some(node(S.v)))))

\* Parser::attach_stmt
AttachStmt(P) ==
    Then(Advance(P), LAMBDA A :
    Then(Expr(IF Is(A, K("DATABASE")) THEN Advance(A) ELSE A), LAMBDA E :
    IF E.p.panic \/ E.v = None THEN Ret(E.p, None)
    ELSE
    Then(ConsumeIdent(Consume(E.p, K("AS"))), LAMBDA I :
    IF I.v = None THEN Ret(I.p, None)
    ELSE Ret(ExpectEnd(I.p),
             Some([type |-> "Attach", t |-> Cur(P), schema_name |-> I.v[1],
                   expr |-> E.v[1]])))))

\* Parser::release_stmt
ReleaseStmt(P) ==
    Then(Advance(P), LAMBDA A :
    Then(ConsumeIdent(IF Is(A, K("SAVEPOINT")) THEN Advance(A) ELSE A), LAMBDA I :
    IF I.v = None THEN Ret(I.p, None)
    ELSE Ret(ExpectEnd(I.p),
             Some([type |-> "Release", t |-> Cur(P), savepoint_name |-> I.v[1]]))))

\* Parser::savepoint_stmt
SavepointStmt(P) ==
    Then(ConsumeIdent(Advance(P)), LAMBDA I :
    IF I.v = None THEN Ret(I.p, None)
    ELSE Ret(ExpectEnd(I.p),
             Some([type |-> "Savepoint", t |-> Cur(P), savepoint_name |-> I.v[1]])))

\* Parser::drop_stmt
DropStmt(P) ==
    Then(Advance(P), LAMBDA A :
    IF ~(Cur(A).ttype = "Keyword" /\ Cur(A).kw \in {"INDEX", "TABLE", "TRIGGER", "VIEW"})
    THEN Ret(Advance(PushErr(A, "Unexpected Token", Cur(A), "Syntax")), None)
    ELSE
    Then(Advance(A), LAMBDA B :
    Then(SchemaTableContainer(IF Is(B, K("IF")) THEN Consume(Advance(B), K("EXISTS")) ELSE B,
                              "table"), LAMBDA S :
    IF S.v = None THEN Ret(S.p, None)
    ELSE Ret(S.p, Some([type |-> "Drop", t |-> Cur(P), ttype |-> Cur(A).kw,
                        if_exists |-> Is(B, K("IF")), argument |-> S.v[1]])))))

\* Parser::analyse_stmt (with its inlined schema_table_container)
AnalyseStmt(P) ==
    Then(Advance(P), LAMBDA A :
    Then(IF Cur(A).ttype = "Ident" /\ NextIs(A, T("Dot"))
         THEN Then(Advance(Advance(A)), LAMBDA B :
                   IF Cur(B).ttype = "Ident" \/ Cur(B).ttype = "String"
                   THEN Ret(Advance(B), Some(SchemaAndTable(Cur(A).text, Cur(B).text)))
                   ELSE Ret(Advance(PushErr(B, "Malformed table name", Cur(B), "Syntax")),
                            None))
         ELSE IF Cur(A).ttype = "Ident" \/ Cur(A).ttype = "String"
         THEN Ret(Advance(A), Some(Table(Cur(A).text)))
         ELSE Ret(A, None), LAMBDA S :
    Ret(ExpectEnd(S.p), Some([type |-> "Analyze", t |-> Cur(P), target |-> S.v]))))

\* Parser::detach_stmt
DetachStmt(P) ==
    Then(Advance(P), LAMBDA A :
    Then(ConsumeIdent(IF Is(A, K("DATABASE")) THEN Advance(A) ELSE A), LAMBDA I :
    IF I.v = None THEN Ret(I.p, None)
    ELSE Ret(ExpectEnd(I.p),
             Some([type |-> "Detach", t |-> Cur(P), schema_name |-> I.v[1]]))))

\* Parser::rollback_stmt
RollbackStmt(P) ==
    LET node(s) == [type |-> "Rollback", t |-> Cur(P), save_point |-> s]
    IN  Then(Advance(P), LAMBDA A :
        Then(IF IsKeyword(A, "TRANSACTION") \/ IsKeyword(A, "TO") \/ Is(A, T("Semicolon"))
             THEN A
             ELSE PushErr(A, "Unexpected Token", Cur(A), "Syntax"), LAMBDA B :
        Then(IF Is(B, K("TRANSACTION")) THEN Advance(B) ELSE B, LAMBDA C :
        IF ~Is(C, K("TO")) THEN Ret(ExpectEnd(C), Some(node(None)))
        ELSE
        Then(Advance(C), LAMBDA D :
        Then(IF Is(D, K("SAVEPOINT")) THEN Advance(D) ELSE D, LAMBDA E :
        Then(IF IsKeyword(E, "SAVEPOINT") \/ Cur(E).ttype = "Ident" \/ Is(E, T("Semicolon"))
             THEN E
             ELSE Advance(PushErr(E, "Unexpected Token", Cur(E), "Syntax")), LAMBDA F :
        Ret(ExpectEnd(Advance(IF Cur(F).ttype = "Ident" THEN F
                              ELSE PushErr(F, "Unexpected Token", Cur(F), "Syntax"))),
            Some(node(IF Cur(F).ttype = "Ident" THEN Some(Cur(F).text) ELSE None)))))))))

\* Parser::commit_stmt
CommitStmt(P) ==
    Then(Advance(P), LAMBDA A :
         Ret(ExpectEnd(IF Is(A, T("Semicolon")) THEN A
                       ELSE IF IsKeyword(A, "TRANSACTION") THEN Advance(A)
                       ELSE Advance(PushErr(A, "Unexpected Token", Cur(A), "Syntax"))),
             Some([type |-> "Commit", t |-> Cur(P)])))

IsTransactionKind(tok) ==
    tok.ttype = "Keyword" /\ tok.kw \in {"DEFERRED", "IMMEDIATE", "EXCLUSIVE"}

BeginStmtNoSkip(P) ==
    LET node(k) == [type |-> "Begin", t |-> Cur(P), transaction_kind |-> k]
    IN  Then(Advance(P), LAMBDA A :
        IF Is(A, T("Semicolon")) THEN Ret(A, Some(node(None)))
        ELSE
        Then(IF IsTransactionKind(Cur(A)) THEN Some(Cur(A).kw) ELSE None, LAMBDA kind :
        Then(IF IsTransactionKind(Cur(A)) THEN Advance(A) ELSE A, LAMBDA B :
        IF Is(B, T("Semicolon")) THEN Ret(B, Some(node(kind)))
        ELSE Ret(ExpectEnd(
                     IF IsKeyword(B, "TRANSACTION") THEN Advance(B)
                     ELSE PushErr(B, "Unexpected Token", Cur(B), "Syntax")),
                 Some(node(kind))))))

\* Parser::begin_stmt
BeginStmt(P) ==
    LET node(k) == [type |-> "Begin", t |-> Cur(P), transaction_kind |-> k]
    IN  Then(Advance(P), LAMBDA A :
        IF Is(A, T("Semicolon")) THEN Ret(A, Some(node(None)))
        ELSE
        Then(IF IsTransactionKind(Cur(A)) THEN Some(Cur(A).kw) ELSE None, LAMBDA kind :
        Then(IF IsTransactionKind(Cur(A)) THEN Advance(A) ELSE A, LAMBDA B :
        IF Is(B, T("Semicolon")) THEN Ret(B, Some(node(kind)))
        ELSE Ret(ExpectEnd(
                     IF IsKeyword(B, "TRANSACTION") THEN Advance(B)
                     ELSE IF IsTransactionKind(Cur(B))
                     THEN SkipUntilSemicolonOrEof(
                              PushErr(B, "Unexpected Token", Cur(B), "Syntax"))
                     ELSE PushErr(B, "Unexpected Token", Cur(B), "Syntax")),
                 Some(node(kind))))))

VacuumStmtNoFilename(P) ==
    LET node(s, f) == [type |-> "Vacuum", t |-> Cur(P), schema_name |-> s, filename |-> f]
    IN  Then(Consume(P, K("VACUUM")), LAMBDA A :
        Then(IF Is(A, T("Semicolon")) \/ Cur(A).ttype = "Ident" \/ IsKeyword(A, "INTO") THEN A
             ELSE Advance(PushErr(A, "Unexpected Token", Cur(A), "Syntax")), LAMBDA B :
        IF Is(B, T("Semicolon")) THEN Ret(B, Some(node(None, None)))
        ELSE
        Then(IF Cur(B).ttype = "Ident" THEN Advance(B) ELSE B, LAMBDA C :
        Then(Advance(C), LAMBDA D :
        Ret(ExpectEnd(IF ~IsKeyword(C, "INTO") THEN C
                      ELSE IF Cur(D).ttype = "String" THEN Advance(D)
                      ELSE Advance(PushErr(D, "Unexpected Token", Cur(D), "Syntax"))),
            Some(node(IF Cur(B).ttype = "Ident" THEN Some(Cur(B)) ELSE None,
                      None)))))))

\* Parser::vacuum_stmt
VacuumStmt(P) ==
    LET node(s, f) == [type |-> "Vacuum", t |-> Cur(P), schema_name |-> s, filename |-> f]
    IN  Then(Consume(P, K("VACUUM")), LAMBDA A :
        Then(IF Is(A, T("Semicolon")) \/ Cur(A).ttype = "Ident" \/ IsKeyword(A, "INTO") THEN A
             ELSE Advance(PushErr(A, "Unexpected Token", Cur(A), "Syntax")), LAMBDA B :
        IF Is(B, T("Semicolon")) THEN Ret(B, Some(node(None, None)))
        ELSE
        Then(IF Cur(B).ttype = "Ident" THEN Advance(B) ELSE B, LAMBDA C :
        Then(Advance(C), LAMBDA D :
        Ret(ExpectEnd(IF ~IsKeyword(C, "INTO") THEN C
                      ELSE IF Cur(D).ttype = "String" THEN Advance(D)
                      ELSE Advance(PushErr(D, "Unexpected Token", Cur(D), "Syntax"))),
            Some(node(IF Cur(B).ttype = "Ident" THEN Some(Cur(B)) ELSE None,
                      IF IsKeyword(C, "INTO") /\ Cur(D).ttype = "String" THEN Some(Cur(D))
                      ELSE None)))))))

\* Parser::sql_stmt
SqlStmt(P) ==
    LET cur == Cur(P)
        k == IF cur.ttype = "Keyword" THEN cur.kw ELSE ""
    IN  IF k = "PRAGMA" THEN PragmaStmt(P)
        ELSE IF k = "ALTER" THEN AlterStmt(P)
        ELSE IF k = "ATTACH" THEN AttachStmt(P)
        ELSE IF k = "REINDEX" THEN ReindexStmt(P)
        ELSE IF k = "RELEASE" THEN ReleaseStmt(P)
        ELSE IF k = "SAVEPOINT" THEN SavepointStmt(P)
        ELSE IF k = "DROP" THEN DropStmt(P)
        ELSE IF k = "ANALYZE" THEN AnalyseStmt(P)
        ELSE IF k = "DETACH" THEN DetachStmt(P)
        ELSE IF k = "ROLLBACK" THEN RollbackStmt(P)
        ELSE IF k = "COMMIT" \/ k = "END" THEN CommitStmt(P)
        ELSE IF k = "BEGIN" THEN BeginStmt(P)
        ELSE IF k = "VACUUM" THEN VacuumStmt(P)
        ELSE IF cur.ttype = "Semicolon"
        THEN Ret(Advance(PushErr(P, "Unexpected Token", cur, "Syntax")), None)
        ELSE IF IsLiteralStart(cur)
        THEN Ret(Advance(PushErr(P, "Unexpected Literal", cur, "Syntax")), None)
        ELSE IF cur.ttype = "Ident"
        THEN Ret(Advance(PushErr(P, "Unknown Keyword", cur, "UnknownKeyword")), None)
        ELSE IF cur.ttype = "Keyword"
        THEN Ret(Advance(PushErr(P, "Unimplemented", cur, "Unimplemented")), None)
        ELSE Ret(SkipUntilSemicolonOrEof(PushErr(P, "Unknown Token", cur, "Unimplemented")),
                 None)

SqlStmtPrefixNoWrap(P) ==
    IF IsKeyword(P, "EXPLAIN")
    THEN Then(Advance(P), LAMBDA A :
         SqlStmt(IF Is(A, K("QUERY")) THEN Consume(Advance(A), K("PLAN")) ELSE A))
    ELSE SqlStmt(P)

\* Parser::sql_stmt_prefix
SqlStmtPrefix(P) ==
    IF IsKeyword(P, "EXPLAIN")
    THEN Then(Advance(P), LAMBDA A :
         Then(SqlStmt(IF Is(A, K("QUERY")) THEN Consume(Advance(A), K("PLAN")) ELSE A),
              LAMBDA C :
              IF C.v = None THEN Ret(C.p, None)
              ELSE Ret(C.p, Some([type |-> "Explain", t |-> Cur(P), child |-> C.v[1]]))))
    ELSE SqlStmt(P)

\* lines 223-226: parse one statement, keep its node, consume the ';'
StmtAndSemicolon(P) ==
    Then(SqlStmtPrefix(P), LAMBDA S :
         IF S.p.panic THEN S.p
         ELSE Consume(IF S.v = None THEN S.p ELSE [S.p EXCEPT !.r = Append(@, S.v[1])],
                      T("Semicolon")))

\* the statement loop without the branch for InstructionExpect
SqlStmtListIterNoDirective(P) == StmtAndSemicolon(P)

\* lines 208-227: one iteration of the loop of Parser::sql_stmt_list
SqlStmtListIter(P) ==
    IF Cur(P).ttype = "InstructionExpect"
    THEN Then(SkipUntilSemicolonOrEof(P), LAMBDA S :
              IF ~IsEof(S) THEN Consume(S, T("Semicolon")) ELSE StmtAndSemicolon(S))
    ELSE StmtAndSemicolon(P)

(***************************************************************************)
(* Inputs                                                                  *)
(***************************************************************************)
\* the longest free-form source, counted in fragments
MaxFragments == 3
\* the longest free-form statement list, counted in words
MaxWords == 3

RECURSIVE Cat(_)
\* the concatenation of a sequence of byte strings
Cat(ss) == IF ss = <<>> THEN <<>> ELSE Head(ss) \o Cat(Tail(ss))

\* a word of an input is a keyword, written in upper case, or literal bytes
Kw(keyword) == [kw |-> keyword, text |-> <<>>]
W(bytes) == [kw |-> "", text |-> bytes]

UpperByte(c) == IF c \in 97..122 THEN c - 32 ELSE c
Upper(s) == [i \in 1..Len(s) |-> UpperByte(s[i])]

\* the bytes of a word
Spell(w) ==
    IF w.kw = "" THEN w.text
    ELSE Upper((CHOOSE e \in {KeywordTable[i] : i \in DOMAIN KeywordTable} : e.kw = w.kw).text)

RECURSIVE Join(_)
\* the words of ws separated by single spaces
Join(ws) ==
    IF ws = <<>> THEN <<>>
    ELSE Spell(ws[1]) \o (IF Len(ws) = 1 THEN <<>> ELSE <<32>> \o Join(Tail(ws)))

SeqsUpTo(S, n) == UNION {[1..k -> S] : k \in 0..n}

\* "-- @sqleibniz::expect" followed by a newline
ExpectComment == W(<<45, 45, 32, 64>> \o TextSqleibnizPrefix \o TextExpect \o <<10>>)

Fragments ==
    { <<32>>, <<10>>, <<47>>, <<42>>, <<45>>, <<39>>, <<59>>, <<46>>, <<48>>, <<120>>,
      <<101>>, <<64>>, <<95>>, <<92>>, <<255>>,
      TextSqleibnizPrefix \o TextExpect }

\* words of the statement corpus
Semi == W(<<59>>)
DotW == W(<<46>>)
BraceLeftW == W(<<40>>)
BraceRightW == W(<<41>>)
EqualW == W(<<61>>)
Num1 == W(<<49>>)
Num5 == W(<<53>>)
Num25 == W(<<50, 53>>)
\* 0x, a hexadecimal literal without digits
NumBadHex == W(<<48, 120>>)
\* 'f'
StrF == W(<<39, 102, 39>>)
\* 'f followed by a newline: a string that is never closed
StrOpen == W(<<39, 102, 10>>)
IdC == W(<<99>>)
IdF == W(<<102>>)
IdN == W(<<110>>)
IdP == W(<<112>>)
IdS == W(<<115>>)
IdT == W(<<116>>)
IdX == W(<<120>>)
IdName == W(<<110, 97, 109, 101>>)
\* VACUM, a misspelled keyword
IdVacum == W(<<86, 65, 67, 85, 77>>)
\* "-- @sqleibniz::expect lets skip this error;;" followed by a newline
ExpectCommentSemis ==
    W(<<45, 45, 32, 64>> \o TextSqleibnizPrefix \o TextExpect
        \o <<32, 108, 101, 116, 115, 32, 115, 107, 105, 112, 32, 116, 104, 105, 115, 32,
             101, 114, 114, 111, 114, 59, 59>> \o <<10>>)

KwSeq(ks) == [i \in 1..Len(ks) |-> Kw(ks[i])]

RECURSIVE Prod(_)
\* every concatenation of one choice out of each set of Ss
Prod(Ss) ==
    IF Ss = <<>> THEN {<<>>}
    ELSE {a \o b : a \in Head(Ss), b \in Prod(Tail(Ss))}

Words ==
    { Kw("VACUUM"), Kw("EXPLAIN"), Kw("INTO"), Kw("SELECT"), Kw("BEGIN"), Semi, Num25, IdS,
      StrF, ExpectComment }

\* statements the parser accepts without a diagnostic when a `;` follows
WellFormed ==
    { KwSeq(<<"VACUUM">>), <<Kw("VACUUM"), IdS>>, <<Kw("VACUUM"), Kw("INTO"), StrF>>,
      <<Kw("VACUUM"), IdS, Kw("INTO"), StrF>>,
      KwSeq(<<"EXPLAIN", "VACUUM">>), KwSeq(<<"EXPLAIN", "QUERY", "PLAN", "VACUUM">>),
      KwSeq(<<"BEGIN">>), KwSeq(<<"BEGIN", "TRANSACTION">>),
      KwSeq(<<"BEGIN", "DEFERRED", "TRANSACTION">>), KwSeq(<<"BEGIN", "IMMEDIATE">>),
      KwSeq(<<"COMMIT">>), KwSeq(<<"END", "TRANSACTION">>),
      KwSeq(<<"ROLLBACK">>), KwSeq(<<"ROLLBACK", "TO", "SAVEPOINT">>) \o <<IdS>>,
      <<Kw("RELEASE"), IdS>>, <<Kw("SAVEPOINT"), IdS>>, <<Kw("DETACH"), IdS>>,
      KwSeq(<<"ANALYZE">>), <<Kw("ANALYZE"), IdS, DotW, IdT>>,
      KwSeq(<<"REINDEX">>), <<Kw("REINDEX"), IdS, DotW, IdT>>,
      KwSeq(<<"DROP", "TABLE", "IF", "EXISTS">>) \o <<IdS, DotW, IdT>>,
      <<Kw("PRAGMA"), IdP>>, <<Kw("PRAGMA"), IdP, EqualW, Num5>>,
      <<Kw("PRAGMA"), IdS, DotW, IdP, BraceLeftW, Num5, BraceRightW>>,
      <<Kw("ATTACH"), Kw("DATABASE"), StrF, Kw("AS"), IdS>> }

\* statements the parser rejects, each with its `;`
Malformed ==
    { <<Kw("SELECT"), Semi>>, <<Kw("SELECT"), Num1, Semi>>, <<IdVacum, Semi>>,
      <<IdVacum, IdS, Semi>>, <<Kw("VACUUM"), Num25, Semi>>, <<Num5, Semi>> }

\* the most malformed statements in front of a well-formed one
MaxMalformed == 2

RECURSIVE MalformedRuns(_)
\* up to n malformed statements in a row
MalformedRuns(n) ==
    IF n = 0 THEN {<<>>}
    ELSE MalformedRuns(n - 1) \cup {a \o b : a \in MalformedRuns(n - 1), b \in Malformed}

StatementInputs ==
    Prod(<<WellFormed, {<<Semi>>, <<>>}>>)
        \cup Prod(<<MalformedRuns(MaxMalformed), {<<Kw("VACUUM"), Semi>>}>>)

AlterHead == KwSeq(<<"ALTER", "TABLE">>)
AlterTargets == {<<IdT>>, <<IdS, DotW, IdT>>, <<Num5>>}
AlterTails ==
    { <<Kw("RENAME"), Kw("TO"), IdN>>, KwSeq(<<"RENAME", "TO">>),
      <<Kw("RENAME"), Kw("COLUMN"), IdC, Kw("TO"), IdN>>, <<Kw("RENAME"), IdC, Kw("TO"), IdN>>,
      <<Kw("RENAME"), IdC, Kw("TO")>>, <<Kw("RENAME"), Kw("COLUMN"), Kw("TO"), IdN>>,
      KwSeq(<<"RENAME">>),
      <<Kw("ADD"), Kw("COLUMN"), IdC, W(TextTEXT)>>, <<Kw("ADD"), IdC, W(TextTEXT)>>,
      <<Kw("ADD"), Kw("COLUMN"), IdC>>, <<Kw("ADD"), Kw("COLUMN"), Num5>>, KwSeq(<<"ADD">>),
      <<Kw("DROP"), Kw("COLUMN"), IdC>>, <<Kw("DROP"), IdC>>, KwSeq(<<"DROP", "COLUMN">>),
      KwSeq(<<"DROP">>), KwSeq(<<"VACUUM">>), <<>> }
AlterInputs == Prod(<<{AlterHead}, AlterTargets, AlterTails, {<<Semi>>, <<>>}>>)

\* ALTER TABLE s.t ADD COLUMN c TEXT
AddColumnHead == AlterHead \o <<IdS, DotW, IdT>> \o KwSeq(<<"ADD", "COLUMN">>) \o <<IdC, W(TextTEXT)>>
\* ... REFERENCES f
FkHead == AddColumnHead \o <<Kw("REFERENCES"), IdF>>
\* the spelling of each ForeignKeyAction
FkActionWords ==
    [SetNull |-> KwSeq(<<"SET", "NULL">>), SetDefault |-> KwSeq(<<"SET", "DEFAULT">>),
     Cascade |-> KwSeq(<<"CASCADE">>), Restrict |-> KwSeq(<<"RESTRICT">>),
     NoAction |-> KwSeq(<<"NO", "ACTION">>)]
FkActions == {FkActionWords[a] : a \in DOMAIN FkActionWords}
FkOn(event) == {KwSeq(<<"ON", event>>)}
FkInputs ==
    Prod(<<{FkHead}, FkOn("DELETE") \cup FkOn("UPDATE"), FkActions, {<<Semi>>}>>)
        \cup Prod(<<{FkHead}, FkOn("DELETE"), FkActions, FkOn("UPDATE"), FkActions, {<<Semi>>}>>)
        \cup Prod(<<{FkHead}, {<<Kw("MATCH")>>},
                    {<<Kw("SIMPLE")>>, <<Kw("FULL")>>, <<Kw("PARTIAL")>>, <<IdN>>, <<Num5>>},
                    {<<Semi>>}>>)
        \cup {FkHead \o <<Semi>>}

\* ... REFERENCES f [ON DELETE CASCADE] [NOT] DEFERRABLE [INITIALLY ..] ;
DeferPrefix == {KwSeq(<<"DEFERRABLE">>), KwSeq(<<"NOT", "DEFERRABLE">>)}
DeferSuffix ==
    { <<>>, KwSeq(<<"INITIALLY", "DEFERRED">>), KwSeq(<<"INITIALLY", "IMMEDIATE">>),
      <<Kw("INITIALLY"), IdN>> }
DeferInputs ==
    Prod(<<{FkHead}, {<<>>, KwSeq(<<"ON", "DELETE", "CASCADE">>)}, DeferPrefix, DeferSuffix,
           {<<Semi>>}>>)

\* BEGIN <kind> <kind> [..] ; [VACUUM [s] ;], and BEGIN <kind> <kind> alone
TransactionKinds == {"DEFERRED", "IMMEDIATE", "EXCLUSIVE"}
BeginExtras == {<<>>, <<Kw("TRANSACTION")>>, <<Kw("EXCLUSIVE"), IdS>>}
BeginTails == {<<>>, <<Kw("VACUUM"), Semi>>, <<Kw("VACUUM"), IdS, Semi>>}
BeginTwice(k1, k2, extra, tail) ==
    <<Kw("BEGIN"), Kw(k1), Kw(k2)>> \o extra \o <<Semi>> \o tail
BeginInputs ==
    {BeginTwice(k1, k2, extra, tail) :
        k1 \in TransactionKinds, k2 \in TransactionKinds, extra \in BeginExtras,
        tail \in BeginTails}
        \cup {<<Kw("BEGIN"), Kw(k1), Kw(k2)>> : k1 \in TransactionKinds, k2 \in TransactionKinds}

\* VACUUM statements that are none of the four shapes
VacuumInputs ==
    { <<Kw("VACUUM"), Kw("INTO"), Num5, Semi>>, <<Kw("VACUUM"), IdS, Kw("INTO"), IdS, Semi>>,
      <<Kw("VACUUM"), IdS, Kw("INTO"), Semi>>, <<Kw("VACUUM"), IdS, Kw("INTO")>>,
      <<Kw("VACUUM"), IdS, IdS, Semi>>, <<Kw("VACUUM"), StrF, Semi>>,
      <<Kw("VACUUM"), Kw("BEGIN"), Semi>>, <<Kw("VACUUM"), IdS, Kw("INTO"), StrF, StrF, Semi>>,
      <<Kw("VACUUM"), Kw("INTO"), StrF, IdS, Semi>>,
      <<Kw("VACUUM"), StrF, Kw("INTO"), StrF, Semi>> }

\* EXPLAIN [QUERY PLAN] <statement> ;, and EXPLAIN with nothing to explain
ExplainHeads == {KwSeq(<<"EXPLAIN">>), KwSeq(<<"EXPLAIN", "QUERY", "PLAN">>)}
Explainable == {w \in WellFormed : w[1] # Kw("EXPLAIN")}
ExplainBad ==
    { <<>>, <<Semi>>, <<IdS, Semi>>, <<Num5, Semi>>, <<Kw("SELECT"), Semi>>,
      <<Kw("EXPLAIN"), Kw("VACUUM"), Semi>>, <<Semi, Kw("EXPLAIN"), Kw("VACUUM"), Semi>> }
ExplainInputs ==
    Prod(<<ExplainHeads, Explainable, {<<Semi>>}>>) \cup Prod(<<ExplainHeads, ExplainBad>>)

\* PRAGMA p = <value> ; and PRAGMA p ( <value> ) ; with values of every kind,
\* and without a value
StarW == W(<<42>>)
BlobW == W(<<88, 39, 39>>)
TrueW == W(<<116, 114, 117, 101>>)
PragmaValues ==
    { <<StrF>>, <<Num5>>, <<IdS>>, <<Kw("VACUUM")>>, <<StarW>>, <<BlobW>>, <<TrueW>>, <<>>,
      <<StarW, StarW>>, <<EqualW, Num5>> }
PragmaInputs ==
    Prod(<<{<<Kw("PRAGMA"), IdP, EqualW>>}, PragmaValues, {<<Semi>>, <<>>, <<Semi, Semi>>}>>)
        \cup Prod(<<{<<Kw("PRAGMA"), IdP, BraceLeftW>>}, PragmaValues,
                    {<<BraceRightW, Semi>>, <<Semi>>, <<>>}>>)

\* type names that are none of TEXT, BLOB, REAL, INT and INTEGER, and text in lower case
TypeNvarchar == <<78, 86, 65, 82, 67, 72, 65, 82>>
TypeFloat == <<70, 76, 79, 65, 84>>
TypeDouble == <<68, 79, 85, 66, 76, 69>>
TypeNumeric == <<78, 85, 77, 69, 82, 73, 67>>
TypeBigint == <<66, 73, 71, 73, 78, 84>>
TypeBlobtext == <<66, 76, 79, 66, 84, 69, 88, 84>>
TypeRealblob == <<82, 69, 65, 76, 66, 76, 79, 66>>
TypeIntreal == <<73, 78, 84, 82, 69, 65, 76>>
TypeClobs == <<67, 76, 79, 66, 83>>
TypeLower == <<116, 101, 120, 116>>
TypeNames ==
    { TextTEXT, TextBLOB, TextREAL, TextINT, TextINTEGER, TextVARCHAR, TextCLOB, TypeNvarchar,
      TypeFloat, TypeDouble, TypeNumeric, TypeBigint, TypeBlobtext, TypeRealblob, TypeIntreal, TypeClobs, TypeLower }

\* ALTER TABLE t ADD COLUMN c [<type> [( 5 [, 5] )]] ;
CommaW == W(<<44>>)
TypeSizes ==
    {<<>>, <<BraceLeftW, Num5, BraceRightW>>, <<BraceLeftW, Num5, CommaW, Num5, BraceRightW>>}
TypedColumn(name, size) ==
    AlterHead \o <<IdT>> \o KwSeq(<<"ADD", "COLUMN">>) \o <<IdC>>
        \o (IF name = <<>> THEN <<>> ELSE <<W(name)>> \o size) \o <<Semi>>
TypeInputs == {TypedColumn(name, size) : name \in TypeNames \cup {<<>>}, size \in TypeSizes}

\* the sigils of the named bind parameters, and :name written as one word
ColonW == W(<<58>>)
AtW == W(<<64>>)
DollarW == W(<<36>>)
QuestionW == W(<<63>>)
ColonName == W(<<58, 110, 97, 109, 101>>)
Question5 == W(<<63, 53>>)
Sigils == {ColonW, AtW, DollarW}
AttachHeads == {<<Kw("ATTACH")>>, <<Kw("ATTACH"), Kw("DATABASE")>>}
AttachTail == <<Kw("AS"), IdS, Semi>>
\* ATTACH [DATABASE] <sigil> name AS s ;
BindNamed == Prod(<<AttachHeads, {<<g>> : g \in Sigils}, {<<IdName>>}, {AttachTail}>>)
                 \cup {<<Kw("ATTACH"), ColonName>> \o AttachTail}
\* ATTACH [DATABASE] ? [5] AS s ;
BindNumbered == Prod(<<AttachHeads, {<<QuestionW>>, <<QuestionW, Num5>>, <<Question5>>},
                       {AttachTail}>>)
\* what follows a sigil in place of a name
BindFollowers == {<<Num5, Semi>>, <<Kw("AS"), Semi>>, <<Semi>>, <<>>, <<Num5>> \o AttachTail}
\* ATTACH [DATABASE] <sigil> not followed by a name
BindUnnamed == Prod(<<AttachHeads, {<<g>> : g \in Sigils}, BindFollowers>>)
BindInputs == BindNamed \cup BindNumbered \cup BindUnnamed

\* s.t written without blanks
SchemaDotTable == W(<<115, 46, 116>>)
\* the new names of a table or column: n, name and x
RenameNames == {IdN, IdName, IdX}
\* ALTER TABLE s.t RENAME TO <new> ;
RenameTable(new) == AlterHead \o <<SchemaDotTable>> \o KwSeq(<<"RENAME", "TO">>) \o <<new, Semi>>
\* ALTER TABLE s.t RENAME [COLUMN] c TO <new> ;
RenameColumn(column, new) ==
    AlterHead \o <<SchemaDotTable, Kw("RENAME")>> \o column \o <<IdC, Kw("TO"), new, Semi>>
RenameInputs ==
    {RenameTable(new) : new \in RenameNames}
        \cup {RenameColumn(column, new) : column \in {<<>>, <<Kw("COLUMN")>>}, new \in RenameNames}

GeneratedInputs ==
    Prod(<<{AddColumnHead}, {KwSeq(<<"GENERATED", "ALWAYS", "AS">>), KwSeq(<<"AS">>)},
           {<<BraceLeftW, Num5, BraceRightW>>, <<BraceLeftW, BraceRightW>>,
            <<BraceLeftW, IdN, BraceRightW>>, <<BraceLeftW, Semi>>},
           {<<>>, <<Kw("STORED")>>}, {<<Semi>>}>>)

AttachInputs ==
    { <<Kw("ATTACH"), IdName, Kw("AS"), IdX, Semi>>,
      <<Kw("ATTACH"), Kw("DATABASE"), IdName, Kw("AS"), IdS, Semi>>,
      <<Kw("ATTACH"), Num5, Kw("AS"), IdS, Semi>> }

\* statements placed behind an expect directive
Suppressed ==
    { <<Kw("VACUUM"), Num25>>, <<Kw("VACUUM")>>, <<Kw("SELECT"), Num1>>, <<Num5>>,
      <<Kw("VACUUM"), NumBadHex>>, <<Kw("VACUUM"), StrOpen>>, <<IdVacum, IdS>> }
ExpectInputs ==
    Prod(<<{<<>>, <<Kw("VACUUM"), Semi>>}, {<<ExpectComment>>, <<ExpectCommentSemis>>},
           Suppressed, {<<Semi>>},
           {<<>>, <<Kw("EXPLAIN"), Kw("VACUUM"), Semi>>, <<Kw("VACUUM"), Semi>>}>>)
        \cup {<<ExpectComment>>, <<ExpectComment, Kw("VACUUM")>>}

Corpus ==
    {Join(ws) : ws \in StatementInputs \cup AlterInputs \cup FkInputs \cup DeferInputs
                          \cup GeneratedInputs \cup AttachInputs \cup ExpectInputs
                          \cup BeginInputs \cup VacuumInputs \cup ExplainInputs
                          \cup PragmaInputs \cup TypeInputs \cup BindInputs
                          \cup RenameInputs}

FreeLexInputs == {Cat(f) : f \in SeqsUpTo(Fragments, MaxFragments)}
FreeParseInputs == {Join(f) : f \in SeqsUpTo(Words, MaxWords)}

\* a backslash, a byte no arm of the lexer accepts
BadChar == W(<<92>>)
\* X'f followed by a newline: a blob that is never closed
BlobOpen == W(<<88, 39, 102, 10>>)
\* X'12Y', a blob with a character that is no hex digit
BlobBadHex == W(<<88, 39, 49, 50, 89, 39>>)
\* a bare x
BlobBare == W(<<120>>)
\* "-- @x" followed by a newline: an unknown instruction
BadInstruction == W(<<45, 45, 32, 64, 120, 10>>)

\* text the lexer reports, with the rule of the diagnostic
LexRecoveryCases ==
    { [bad |-> BadChar, rule |-> "UnknownCharacter"],
      [bad |-> NumBadHex, rule |-> "InvalidNumericLiteral"],
      [bad |-> StrOpen, rule |-> "UnterminatedString"],
      [bad |-> BlobOpen, rule |-> "InvalidBlob"],
      [bad |-> BlobBare, rule |-> "InvalidBlob"],
      [bad |-> BlobBadHex, rule |-> "InvalidBlob"],
      [bad |-> BadInstruction, rule |-> "BadSqleibnizInstruction"] }

\* a newline in front of a literal puts it on line 1
NewlineW == W(<<10>>)
\* '', 'f g', 'f at the end of input, a lone ', and a two-byte character and a
\* byte that is no UTF-8 between quotes
StrEmpty == W(<<39, 39>>)
StrSpace == W(<<39, 102, 32, 103, 39>>)
StrOpenEof == W(<<39, 102>>)
StrQuote == W(<<39>>)
StrTwoByte == W(<<39, 195, 169, 39>>)
StrNoUtf8 == W(<<39, 255, 39>>)
StringWords == {StrEmpty, StrF, StrSpace, StrOpen, StrOpenEof, StrQuote, StrTwoByte, StrNoUtf8}

\* X'', X'1234567', x'aF', X'f at the end of input, and blobs with a two-byte
\* character and with a byte that is no UTF-8
BlobEmpty == W(<<88, 39, 39>>)
BlobDigits == W(<<88, 39, 49, 50, 51, 52, 53, 54, 55, 39>>)
BlobLower == W(<<120, 39, 97, 70, 39>>)
BlobOpenEof == W(<<88, 39, 102>>)
BlobTwoByte == W(<<88, 39, 195, 169, 39>>)
BlobNoUtf8 == W(<<88, 39, 255, 39>>)
BlobWords ==
    { BlobEmpty, BlobDigits, BlobLower, BlobBadHex, BlobOpen, BlobOpenEof, BlobBare,
      BlobTwoByte, BlobNoUtf8 }

\* 0X, .e, .E, .eeee and 12.e+-15, which no conversion accepts, and
\* 1_000.12_000e+3_5, .0 and 0xABCDEF, which convert
Num0X == W(<<48, 88>>)
NumDotE == W(<<46, 101>>)
NumDotBigE == W(<<46, 69>>)
NumDotEs == W(<<46, 101, 101, 101, 101>>)
NumBadExp == W(<<49, 50, 46, 101, 43, 45, 49, 53>>)
NumFloat == W(<<49, 95, 48, 48, 48, 46, 49, 50, 95, 48, 48, 48, 101, 43, 51, 95, 53>>)
NumDotZero == W(<<46, 48>>)
NumHexLetters == W(<<48, 120, 65, 66, 67, 68, 69, 70>>)
NumberWords ==
    { NumBadHex, Num0X, NumDotE, NumDotBigE, NumDotEs, NumBadExp, NumFloat, NumDotZero,
      NumHexLetters, DotW, Num25 }

\* n zeros
Zeros(n) == [i \in 1..n |-> 48]

\* 0x or 0X, the digit d, and n - 1 zeros
HexWord(x, d, n) == W(<<48, x, d>> \o Zeros(n - 1))

\* 0x7FFF_FFFF_FFFF_FFFF, 0x8000_0000_0000_0000 and 0xFFFF_FFFF_FFFF_FFFF
HexMaxPositive ==
    W(<<48, 120, 55, 70, 70, 70, 95, 70, 70, 70, 70, 95, 70, 70, 70, 70, 95, 70, 70, 70, 70>>)
HexMinNegative ==
    W(<<48, 120, 56, 48, 48, 48, 95, 48, 48, 48, 48, 95, 48, 48, 48, 48, 95, 48, 48, 48, 48>>)
HexAllOnes ==
    W(<<48, 120, 70, 70, 70, 70, 95, 70, 70, 70, 70, 95, 70, 70, 70, 70, 95, 70, 70, 70, 70>>)

\* hexadecimal literals of 1 to 16 digits whose first digit is 1, 7, 8 or f
HexWords ==
    {HexWord(x, d, n) : x \in {120, 88}, d \in {49, 55, 56, 102}, n \in 1..16}
        \cup {HexMaxPositive, HexMinNegative, HexAllOnes}

\* true, TRUE, False, vacuum, VaCuUm, _a1, a_b9, and xyz, X1 and x, which start
\* with the letter of a blob
BoolLower == W(<<116, 114, 117, 101>>)
BoolUpper == W(<<84, 82, 85, 69>>)
BoolMixed == W(<<70, 97, 108, 115, 101>>)
KwLower == W(<<118, 97, 99, 117, 117, 109>>)
KwMixed == W(<<86, 97, 67, 117, 85, 109>>)
IdUnderscore == W(<<95, 97, 49>>)
IdDigits == W(<<97, 95, 98, 57>>)
IdXyz == W(<<120, 121, 122>>)
IdBigX == W(<<88, 49>>)
IdentWords ==
    { BoolLower, BoolUpper, BoolMixed, KwLower, KwMixed, IdUnderscore, IdDigits, IdXyz,
      IdBigX, BlobBare, IdS, IdName }

\* block comments: /**/* and /* c */; and /***/; and, over two lines, /* \n */;
\* then /* c and /**/ which end the input, and /*/; where the opening star is
\* followed by a slash
CommentStar == W(<<47, 42, 42, 47, 42>>)
CommentSemi == W(<<47, 42, 32, 99, 32, 42, 47, 59>>)
CommentStars == W(<<47, 42, 42, 42, 47, 59>>)
CommentLines == W(<<47, 42, 32, 10, 32, 42, 47, 59>>)
CommentOpen == W(<<47, 42, 32, 99>>)
CommentOnly == W(<<47, 42, 42, 47>>)
CommentSlash == W(<<47, 42, 47, 59>>)
CommentWords ==
    { CommentStar, CommentSemi, CommentStars, CommentLines, CommentOpen, CommentOnly,
      CommentSlash }

\* a literal alone, on line 1, and in front of a `;`
LiteralInputs ==
    {Join(ws) : ws \in Prod(<<{<<>>, <<NewlineW>>},
                              {<<w>> : w \in StringWords \cup BlobWords \cup NumberWords \cup HexWords
                                             \cup IdentWords \cup CommentWords},
                              {<<>>, <<Semi>>}>>)}

\* <bad> VACUUM ;
RecoverySource(bad) == Join(<<bad, Kw("VACUUM"), Semi>>)
RecoveryInputs == {RecoverySource(c.bad) : c \in LexRecoveryCases}

\* the same texts on line 1, followed by VACUUM 5 ; which the parser reports
LineOneSource(bad) == Join(<<NewlineW, bad, Kw("VACUUM"), Num5, Semi>>)
LineOneInputs ==
    {LineOneSource(c.bad) : c \in LexRecoveryCases} \cup {Join(<<NewlineW, c.bad>>) : c \in LexRecoveryCases}

\* sources written for the lexer
LexCorpus == RecoveryInputs \cup LiteralInputs \cup LineOneInputs

LexerInputs == FreeLexInputs \cup LexCorpus
ParserInputs == FreeParseInputs \cup Corpus
Inputs == LexerInputs \cup ParserInputs

(***************************************************************************)
(* The program: main.rs lexes a file and, if there are tokens, parses them *)
(***************************************************************************)
\* the documents a language client works on
Uris == {"a.sql", "b.sql"}

\* lsp/mod.rs lines 74-75: tokens and errors start empty; no document is open
LspInit ==
    /\ documents = [u \in Uris |-> None]
    /\ server = [tokens |-> <<>>, errors |-> <<>>, path |-> ""]
    /\ reply = None
    /\ latest = [u \in Uris |-> None]

\* main.rs lines 95-99 and 167-175: one FileResult per path; a path stands for
\* what fs::read gives for it, Some(content) or None when the read fails
FileResult(content) == [content |-> content, errors |-> 0, ignored_errors |-> 0]

\* main.rs lines 102-127: the arguments of the command line, an empty builder
\* and the default configuration without a disabled rule. files holds one
\* FileResult per path of args.paths (lines 165-173); a path stands for what
\* fs::read gives for it
CliInit(paths, disable, silent, ignore_config) ==
    /\ args = [silent |-> silent, ignore_config |-> ignore_config, disable |-> disable,
               disabled_rules |-> {}]
    /\ files = [i \in 1..Len(paths) |-> FileResult(paths[i])]
    /\ error_string_builder = <<>>
    /\ status = None

\* the program behind the configuration step of a run with --ignore-config and
\* without --disable on one file that was read
Init ==
    /\ source \in Inputs
    /\ lexer = LexerNew
    /\ parser = ParserNew
    /\ toks = <<>>
    /\ pc = "lex"
    /\ LspInit
    /\ CliInit(<<Some(source)>>, {}, FALSE, TRUE)
    /\ file = 1

\* Lexer::run lines 150-158: empty source
LexNoContent ==
    /\ pc = "lex"
    /\ source = <<>>
    /\ lexer.pos = 0
    /\ lexer' = LexPushErr(lexer, LexErr(lexer, "No content found in source file", 0,
                                         "NoContent"))
    /\ toks' = <<>>
    /\ pc' = "lexed"
    /\ UNCHANGED <<source, parser>>
    /\ UNCHANGED lspVars
    /\ UNCHANGED cliVars

\* Lexer::run lines 160-463: one iteration of the dispatch loop
LexStep ==
    /\ pc = "lex"
    /\ source # <<>>
    /\ ~LexIsEof(lexer)
    /\ LET Step(R) ==
               IF R.lx.panic
               THEN lexer' = LexPanic(lexer) /\ pc' = "panic"
               ELSE lexer' = R.lx /\ pc' = IF R.brk THEN "lexbreak" ELSE "lex"
       IN  Step(LexIter(lexer))
    /\ UNCHANGED <<source, parser, toks>>
    /\ UNCHANGED lspVars
    /\ UNCHANGED cliVars

\* the return of run without the check for an empty result
LexReturnUnchecked ==
    /\ source # <<>>
    /\ \/ pc = "lex" /\ LexIsEof(lexer)
       \/ pc = "lexbreak"
    /\ lexer' = lexer
    /\ toks' = lexer.r
    /\ pc' = "lexed"
    /\ UNCHANGED <<source, parser>>
    /\ UNCHANGED lspVars
    /\ UNCHANGED cliVars

\* Lexer::run lines 465-474: after the loop
LexReturn ==
    /\ source # <<>>
    /\ \/ pc = "lex" /\ LexIsEof(lexer)
       \/ pc = "lexbreak"
    /\ IF lexer.r = <<>> /\ lexer.errors = <<>>
       THEN /\ lexer' = LexPushErr(lexer, LexErr(lexer, "No statements found in source file",
                                                 0, "NoStatements"))
            /\ toks' = <<>>
       ELSE /\ lexer' = lexer
            /\ toks' = lexer.r
    /\ pc' = "lexed"
    /\ UNCHANGED <<source, parser>>
    /\ UNCHANGED lspVars
    /\ UNCHANGED cliVars

\* main.rs lines 192-196: Parser::new(toks) when there are tokens
DriverParse ==
    /\ pc = "lexed"
    /\ toks # <<>>
    /\ parser' = ParserNew
    /\ pc' = "parse"
    /\ UNCHANGED <<source, lexer, toks>>
    /\ UNCHANGED lspVars
    /\ UNCHANGED cliVars

\* main.rs line 192: no tokens, the parser is not run
DriverSkipParse ==
    /\ pc = "lexed"
    /\ toks = <<>>
    /\ pc' = "done"
    /\ UNCHANGED <<source, lexer, parser, toks>>
    /\ UNCHANGED lspVars
    /\ UNCHANGED cliVars

\* Parser::sql_stmt_list lines 207-227: one iteration of the statement loop
ParseStep ==
    /\ pc = "parse"
    /\ ~IsEof(parser)
    /\ LET Step(R) ==
               IF R.panic
               THEN parser' = Panic(parser) /\ pc' = "panic"
               ELSE parser' = R /\ pc' = "parse"
       IN  Step(SqlStmtListIter(parser))
    /\ UNCHANGED <<source, lexer, toks>>
    /\ UNCHANGED lspVars
    /\ UNCHANGED cliVars

\* Parser::sql_stmt_list line 228: the loop ends, parse() returns r
ParseReturn ==
    /\ pc = "parse"
    /\ IsEof(parser)
    /\ pc' = "done"
    /\ UNCHANGED <<source, lexer, parser, toks>>
    /\ UNCHANGED lspVars
    /\ UNCHANGED cliVars

RECURSIVE LineCount(_)
\* content.lines().count(): the lines that end in a newline, and the rest of
\* the buffer after the last newline when it is not empty
LineCount(content) ==
    IF content = <<>> THEN 0
    ELSE IF \A i \in 1..Len(content) : content[i] # 10 THEN 1
    ELSE 1 + LineCount(SubSeqFrom(content,
                 1 + (CHOOSE i \in 1..Len(content) :
                          content[i] = 10 /\ \A j \in 1..(i - 1) : content[j] # 10),
                 Len(content)))

\* the index of the first newline of a content that has one
FirstNewline(content) ==
    CHOOSE i \in 1..Len(content) : content[i] = 10 /\ \A j \in 1..(i - 1) : content[j] # 10

RECURSIVE Lines(_)
\* content.lines(): the pieces that end in a newline, without their \n or
\* \r\n, and the rest of the buffer after the last newline when it is not empty
Lines(content) ==
    IF content = <<>> THEN <<>>
    ELSE IF \A i \in 1..Len(content) : content[i] # 10 THEN <<content>>
    ELSE LET StripCarriageReturn(piece) ==
                 IF piece # <<>> /\ piece[Len(piece)] = 13
                 THEN SubSeqFrom(piece, 1, Len(piece) - 1)
                 ELSE piece
         IN  <<StripCarriageReturn(SubSeqFrom(content, 1, FirstNewline(content) - 1))>>
                 \o Lines(SubSeqFrom(content, FirstNewline(content) + 1, Len(content)))

\* the number of characters of a line of UTF-8: the bytes that do not continue
\* a character
CharCount(line) == Cardinality({i \in 1..Len(line) : line[i] \notin 128..191})

\* highlight lines 61-68: line.split("").skip(1).take(line.len()) holds one
\* element per character, and one empty element more when the line has a
\* character of several bytes
OriginalLength(line) ==
    IF CharCount(line) = Len(line) THEN Len(line) ELSE CharCount(line) + 1

\* highlight lines 69-78: buf.insert at the byte offsets of a token aborts when
\* the offset lies behind the end of buf
HighlightPanics(token_on_line, line) ==
    /\ token_on_line # <<>>
    /\ \E i \in 1..Len(token_on_line) :
           \/ token_on_line[i].start > OriginalLength(line)
           \/ /\ token_on_line[i].start = token_on_line[i].end
              /\ token_on_line[i].end > OriginalLength(line) + 1
           \/ /\ token_on_line[i].start # token_on_line[i].end
              /\ token_on_line[i].end > OriginalLength(line)

\* Error::print lines 112-116: a NoStatements diagnostic is moved to the last line
PrintLine(e, content) ==
    IF e.rule = "NoStatements" THEN LineCount(content) - 1 ELSE e.line

\* Error::print lines 118-214: the lines that are highlighted, the line of the
\* diagnostic, the two lines before it when it is on line 2 or later, and the
\* two lines after it
PrintedLines(line, content) ==
    {n \in ((IF line >= 2 THEN {line - 2, line - 1} ELSE {}) \cup {line, line + 1, line + 2}) :
        n < LineCount(content)}

\* Error::print aborts: a line of the content is no UTF-8 (x.unwrap()), the
\* diagnostic lies on a line the content does not have (lines.get(..).unwrap()),
\* or highlight aborts on one of the lines it prints
PrintPanics(e, content, tokens) ==
    /\ content # <<>>
    /\ \/ ~Utf8Valid(content)
       \/ PrintLine(e, content) >= LineCount(content)
       \/ \E n \in PrintedLines(PrintLine(e, content), content) :
              HighlightPanics(SelectSeq(tokens, LAMBDA t : t.line = n),
                              Lines(content)[n + 1])

\* main.rs lines 231-241: the diagnostics whose rule is not disabled
ProcessedErrors(errors, disabled_rules) ==
    LET kept(e) == e.rule \notin disabled_rules IN SelectSeq(errors, kept)

RECURSIVE Printed(_)
\* main.rs lines 250-259: every diagnostic as Error::print writes it, with the
\* character \n between two of them
Printed(processed_errors) ==
    IF Len(processed_errors) <= 1 THEN processed_errors
    ELSE <<Head(processed_errors), [char |-> 10]>> \o Printed(Tail(processed_errors))

\* main.rs lines 231-261: filter the diagnostics of the file; unless there are
\* none or silent, write the header with the name of the file (which the model
\* gives as the position of the path) and print them; store the two counters
DriverFile ==
    /\ pc = "done"
    /\ LET Step(processed_errors) ==
               IF /\ processed_errors # <<>>
                  /\ ~args.silent
                  /\ \E i \in 1..Len(processed_errors) :
                         PrintPanics(processed_errors[i], source, toks)
               THEN /\ pc' = "abort"
                    /\ UNCHANGED <<files, error_string_builder>>
               ELSE /\ error_string_builder' =
                           IF processed_errors = <<>> \/ args.silent THEN error_string_builder
                           ELSE error_string_builder \o <<[header |-> file]>>
                                    \o Printed(processed_errors)
                    /\ files' = [files EXCEPT
                                    ![file].errors = Len(processed_errors),
                                    ![file].ignored_errors =
                                        Len(lexer.errors) + Len(parser.errors)
                                            - Len(processed_errors)]
                    /\ pc' = "filed"
       IN  Step(ProcessedErrors(lexer.errors \o parser.errors, args.disabled_rules))
    /\ UNCHANGED <<source, lexer, parser, toks, args, file, status>>
    /\ UNCHANGED lspVars

\* main.rs lines 113-122: no path on the command line: error::err writes a line
\* to the builder unless silent, and exit(1); the configuration is not read
DriverNoPaths ==
    /\ pc = "main"
    /\ files = <<>>
    /\ error_string_builder' =
           IF args.silent THEN error_string_builder
           ELSE Append(error_string_builder, [err |-> "no source file(s) provided, exiting"])
    /\ status' = Some(1)
    /\ pc' = "exit"
    /\ UNCHANGED <<source, lexer, parser, toks, args, files, file>>
    /\ UNCHANGED lspVars

\* main.rs lines 129-146: the rules of the configuration, when it is not ignored
\* and was read, followed by the rules of --disable; configuration is what
\* configuration() of main.rs lines 68-93 returns, [disabled_rules |-> rules]
\* for Ok and [err |-> message] for Err
ConfigDisabledRules(disable, ignore_config, configuration) ==
    (IF ~ignore_config /\ "err" \notin DOMAIN configuration
     THEN configuration.disabled_rules ELSE {}) \cup disable

\* main.rs lines 124-146, with at least one path: unless --ignore-config the
\* configuration is read; for an Err error::warn writes its message to the
\* builder unless silent. Lines 148-160 list the disabled rules in a buffer of their
\* own, which is printed at once and is no part of error_string_builder
DriverConfiguration(configuration) ==
    /\ pc = "main"
    /\ files # <<>>
    /\ args' = [args EXCEPT !.disabled_rules =
                    ConfigDisabledRules(args.disable, args.ignore_config, configuration)]
    /\ error_string_builder' =
           IF ~args.ignore_config /\ "err" \in DOMAIN configuration /\ ~args.silent
           THEN Append(error_string_builder, [warn |-> configuration.err])
           ELSE error_string_builder
    /\ pc' = "loop"
    /\ UNCHANGED <<source, lexer, parser, toks, files, file, status>>
    /\ UNCHANGED lspVars

\* main.rs lines 175-191: the loop takes the next file and reads it; exit(1)
\* when the read fails
DriverNextFile ==
    /\ pc \in {"loop", "filed"}
    /\ file < Len(files)
    /\ file' = file + 1
    /\ IF files[file + 1].content = None
       THEN /\ error_string_builder' =
                   IF args.silent THEN error_string_builder
                   ELSE Append(error_string_builder,
                               [err |-> "failed to read file", name |-> file + 1])
            /\ status' = Some(1)
            /\ pc' = "exit"
            /\ UNCHANGED <<source, lexer, parser, toks>>
       ELSE /\ source' = files[file + 1].content[1]
            /\ lexer' = LexerNew
            /\ parser' = ParserNew
            /\ toks' = <<>>
            /\ pc' = "lex"
            /\ UNCHANGED <<error_string_builder, status>>
    /\ UNCHANGED <<args, files>>
    /\ UNCHANGED lspVars

\* main.rs lines 265-335: after the last file the summary is written unless
\* silent (lines 273-323: a heading, the two counters of every file, the
\* character \n and the number of files without a diagnostic), and the
\* process ends with exit(1) unless every file has errors == 0
DriverExit ==
    /\ pc = "filed"
    /\ file = Len(files)
    /\ error_string_builder' =
           IF args.silent THEN error_string_builder
           ELSE error_string_builder
                    \o <<[heading |-> "Summary"]>>
                    \o [i \in 1..Len(files) |->
                           [name |-> i, errors |-> files[i].errors,
                            ignored_errors |-> files[i].ignored_errors]]
                    \o <<[char |-> 10],
                         [verified |-> Cardinality({i \in 1..Len(files) : files[i].errors = 0}),
                          files |-> Len(files)]>>
    /\ status' = Some(IF \A i \in 1..Len(files) : files[i].errors = 0 THEN 0 ELSE 1)
    /\ pc' = "exit"
    /\ UNCHANGED <<source, lexer, parser, toks, args, files, file>>
    /\ UNCHANGED lspVars

\* a panic on the main thread ends the process with status 101
DriverAbort ==
    /\ pc \in {"panic", "abort"}
    /\ status' = Some(101)
    /\ pc' = "exit"
    /\ UNCHANGED <<source, lexer, parser, toks, args, files, file, error_string_builder>>
    /\ UNCHANGED lspVars

Next ==
    \/ LexNoContent
    \/ LexStep
    \/ LexReturn
    \/ DriverParse
    \/ DriverSkipParse
    \/ ParseStep
    \/ ParseReturn

Spec == Init /\ [][Next]_vars

\* the same program started on statement lists only
InitParser ==
    /\ source \in ParserInputs
    /\ lexer = LexerNew
    /\ parser = ParserNew
    /\ toks = <<>>
    /\ pc = "lex"
    /\ LspInit
    /\ CliInit(<<Some(source)>>, {}, FALSE, TRUE)
    /\ file = 1

SpecParser == InitParser /\ [][Next]_vars

(***************************************************************************)
(* The command line program on several files: main.rs main                 *)
(***************************************************************************)
\* the most files on one command line
MaxFiles == 2

\* the string 'ää', two characters of two bytes each between the quotes
StrUmlauts == W(<<39, 195, 164, 195, 164, 39>>)

\* the contents of the files: empty, VACUUM;, 0x VACUUM, a lone -,
\* ATTACH name AS s;, a byte that is no UTF-8, VACUUM 5 ; VACUUM 5 ; and
\* 0x 'ää'
CliTexts ==
    { <<>>, Join(<<Kw("VACUUM")>>) \o <<59>>, Join(<<NumBadHex, Kw("VACUUM")>>), <<45>>,
      Join(<<Kw("ATTACH"), IdName, Kw("AS"), IdS>>) \o <<59>>, <<255>>,
      Join(<<Kw("VACUUM"), Num5, Semi, Kw("VACUUM"), Num5, Semi>>),
      Join(<<NumBadHex, StrUmlauts>>) }

\* what fs::read gives for a path: the content of the file, or nothing when the
\* file cannot be read
CliReads == {None} \cup {Some(text) : text \in CliTexts}

\* the rules disabled by --disable
DisabledRules ==
    { {}, {"Semicolon"}, {"Syntax", "NoContent"},
      {"InvalidNumericLiteral", "Semicolon", "Syntax"} }

\* what configuration() gives: the Err of a file that cannot be read, the Err
\* of a file without a leibniz table, no disabled rule, or the rule Semicolon
Configurations ==
    { [err |-> "Issue trying to read configuration, falling back to default configuration"],
      [err |-> "leibniz table is missing from configuration"],
      [disabled_rules |-> {}], [disabled_rules |-> {"Semicolon"}] }

\* main.rs lines 95-112: main with the arguments of the command line
InitCli ==
    /\ \E paths \in UNION {[1..n -> CliReads] : n \in 0..MaxFiles} :
       \E disable \in DisabledRules, silent \in BOOLEAN, ignore_config \in BOOLEAN :
           CliInit(paths, disable, silent, ignore_config)
    /\ file = 0
    /\ source = <<>>
    /\ lexer = LexerNew
    /\ parser = ParserNew
    /\ toks = <<>>
    /\ pc = "main"
    /\ LspInit

NextCli ==
    \/ Next
    \/ DriverNoPaths
    \/ \E configuration \in Configurations : DriverConfiguration(configuration)
    \/ DriverFile
    \/ DriverNextFile
    \/ DriverExit
    \/ DriverAbort

SpecCli == InitCli /\ [][NextCli]_vars

(***************************************************************************)
(* The language server: lsp/mod.rs event_loop                              *)
(***************************************************************************)
\* the texts a client sends: nothing, VACUUM;, VACUUM 5 x; and a lone -
LspTexts ==
    { <<>>, Join(<<Kw("VACUUM")>>) \o <<59>>,
      Join(<<Kw("VACUUM"), Num5, IdName>>) \o <<59>>, <<45>> }

\* main.rs line 104: --lsp starts the language server; start has made the
\* connection and waits in connection.initialize for the client's initialize
\* request (lsp/mod.rs lines 21-49)
InitLsp ==
    /\ source = <<>>
    /\ lexer = LexerNew
    /\ parser = ParserNew
    /\ toks = <<>>
    /\ pc = "initialize"
    /\ LspInit
    /\ CliInit(<<>>, {}, FALSE, TRUE)
    /\ file = 0

\* the parameters of a message: None when they do not deserialize, and cast or
\* cast_noti gives an Err
DidOpenParams == {None} \cup {Some([uri |-> uri, text |-> text]) : uri \in Uris, text \in LspTexts}
DidChangeParams ==
    {None} \cup {Some([uri |-> uri, content_changes |-> changes]) :
                    uri \in Uris, changes \in {<<>>} \cup {<<text>> : text \in LspTexts}}
DiagnosticParams == {None} \cup {Some([uri |-> uri]) : uri \in Uris}
HoverParams ==
    {None} \cup {Some([uri |-> uri, line |-> line, character |-> character]) :
                    uri \in Uris, line \in {0, 1}, character \in {0, 7}}

\* lines 49-73: when connection.initialize gives an Err, start returns an Err
\* and main panics (main.rs lines 105-107); line 72:
\* serde_json::from_value(params).unwrap() aborts when the parameters of
\* initialize do not deserialize; otherwise the loop waits for a message
EventLoopStart(initialized, params) ==
    /\ pc = "initialize"
    /\ pc' = IF ~initialized \/ params = None THEN "panic" ELSE "idle"
    /\ UNCHANGED <<source, lexer, parser, toks>>
    /\ UNCHANGED lspVars
    /\ UNCHANGED cliVars

\* lines 138-153: textDocument/didOpen, up to Lexer::new; panic! when the
\* parameters do not deserialize
DidOpen(params) ==
    /\ pc = "idle"
    /\ reply' = None
    /\ IF params = None
       THEN /\ pc' = "panic"
            /\ UNCHANGED <<source, lexer, server, documents>>
       ELSE /\ documents' = [documents EXCEPT ![params[1].uri] = Some(params[1].text)]
            /\ source' = params[1].text
            /\ lexer' = LexerNew
            /\ server' = [server EXCEPT !.path = params[1].uri]
            /\ pc' = "lex"
    /\ UNCHANGED <<parser, toks, latest>>
    /\ UNCHANGED cliVars

\* lines 122-137: textDocument/didChange, up to Lexer::new; panic! when the
\* parameters do not deserialize, and content_changes[0] of an empty list of
\* changes is an index out of bounds
DidChange(params) ==
    /\ pc = "idle"
    /\ reply' = None
    /\ IF params = None \/ params[1].content_changes = <<>>
       THEN /\ pc' = "panic"
            /\ UNCHANGED <<source, lexer, server, documents>>
       ELSE /\ documents' = [documents EXCEPT
                                ![params[1].uri] = Some(params[1].content_changes[1])]
            /\ source' = params[1].content_changes[1]
            /\ lexer' = LexerNew
            /\ server' = [server EXCEPT !.path = params[1].uri]
            /\ pc' = "lex"
    /\ UNCHANGED <<parser, toks, latest>>
    /\ UNCHANGED cliVars

\* lines 129-131 and 145-147: tokens = l.run(); errors = l.errors; Parser::new
LspParse ==
    /\ pc = "lexed"
    /\ server' = [server EXCEPT !.tokens = toks, !.errors = lexer.errors]
    /\ parser' = ParserNew
    /\ pc' = "parse"
    /\ UNCHANGED <<source, lexer, toks, documents, reply, latest>>
    /\ UNCHANGED cliVars

\* lines 132-133 and 148-149: p.parse() returned, errors.append(&mut p.errors);
\* the loop waits for the next message
LspAnalysed ==
    /\ pc = "parse"
    /\ IsEof(parser)
    /\ server' = [server EXCEPT !.errors = @ \o parser.errors]
    /\ latest' = [latest EXCEPT ![server.path] =
                      Some([tokens |-> toks, errors |-> lexer.errors \o parser.errors])]
    /\ pc' = "idle"
    /\ UNCHANGED <<source, lexer, parser, toks, documents, reply>>
    /\ UNCHANGED cliVars

\* lines 98-113: textDocument/diagnostic; handlers::diagnostic::handle answers
\* with the list it is given; panic! when the parameters do not deserialize
DiagnosticRequest(params) ==
    /\ pc = "idle"
    /\ IF params = None
       THEN /\ pc' = "panic"
            /\ UNCHANGED reply
       ELSE /\ reply' = Some([method |-> "textDocument/diagnostic", uri |-> params[1].uri,
                              errors |-> server.errors])
            /\ UNCHANGED pc
    /\ UNCHANGED <<source, lexer, parser, toks, documents, server, latest>>
    /\ UNCHANGED cliVars

\* handlers::hover::handle lines 14-26: the last element of the list event_loop
\* hands over that lies on the line of the cursor and starts at or before it
HoverTarget(elements, line, character) ==
    LET hit == {i \in 1..Len(elements) :
                   elements[i].line = line /\ elements[i].start <= character}
    IN  IF hit = {} THEN None
        ELSE Some(elements[CHOOSE i \in hit : \A j \in hit : j <= i])

\* lines 85-97: textDocument/hover; handlers::hover::handle sends a response
\* made from the element under the cursor, or "Unknown"; panic! when the
\* parameters do not deserialize
HoverRequest(params) ==
    /\ pc = "idle"
    /\ IF params = None
       THEN /\ pc' = "panic"
            /\ UNCHANGED reply
       ELSE /\ reply' = Some([method |-> "textDocument/hover", uri |-> params[1].uri,
                              contents |-> HoverTarget(server.tokens, params[1].line,
                                                       params[1].character)])
            /\ UNCHANGED pc
    /\ UNCHANGED <<source, lexer, parser, toks, documents, server, latest>>
    /\ UNCHANGED cliVars

\* lines 80-82 and 60-67: a shutdown request; handle_shutdown answers it and
\* waits for the exit notification: with it event_loop returns Ok, start waits
\* for the threads of the connection and main returns; without it
\* handle_shutdown gives an Err, and when threads.join() gives an Err, start
\* returns an Err and main panics (main.rs lines 105-107)
LspShutdown(exit_follows, joined) ==
    /\ pc = "idle"
    /\ reply' = Some([method |-> "shutdown"])
    /\ IF exit_follows /\ joined
       THEN pc' = "exit" /\ status' = Some(0)
       ELSE pc' = "panic" /\ UNCHANGED status
    /\ UNCHANGED <<source, lexer, parser, toks, documents, server, latest>>
    /\ UNCHANGED <<args, files, file, error_string_builder>>

\* lines 76, 158 and 60-67: the client closes the connection, the loop over
\* the receiver ends, event_loop returns Ok and start waits for the threads of
\* the connection: main returns when threads.join() gives Ok; when it gives an
\* Err, start returns an Err and main panics (main.rs lines 105-107)
LspDisconnect(joined) ==
    /\ pc = "idle"
    /\ IF joined
       THEN pc' = "exit" /\ status' = Some(0)
       ELSE pc' = "panic" /\ UNCHANGED status
    /\ UNCHANGED <<source, lexer, parser, toks>>
    /\ UNCHANGED lspVars
    /\ UNCHANGED <<args, files, file, error_string_builder>>

\* a response, and a request or a notification of any other method, change
\* nothing (lines 114, 118-120, 154)
NextLsp ==
    \/ \E initialized \in BOOLEAN, params \in {None, Some("InitializeParams")} :
           EventLoopStart(initialized, params)
    \/ \E params \in DidOpenParams : DidOpen(params)
    \/ \E params \in DidChangeParams : DidChange(params)
    \/ \E params \in DiagnosticParams : DiagnosticRequest(params)
    \/ \E params \in HoverParams : HoverRequest(params)
    \/ \E exit_follows \in BOOLEAN, joined \in BOOLEAN : LspShutdown(exit_follows, joined)
    \/ \E joined \in BOOLEAN : LspDisconnect(joined)
    \/ LexNoContent
    \/ LexStep
    \/ LexReturn
    \/ LspParse
    \/ ParseStep
    \/ LspAnalysed
    \/ DriverAbort

SpecLsp == InitLsp /\ [][NextLsp]_vars

(***************************************************************************)
(* Properties                                                              *)
(***************************************************************************)
\* main.rs: the diagnostics of a file, the lexer's first
Diagnostics == lexer.errors \o parser.errors

RuleCount(errs, rule) == Cardinality({i \in 1..Len(errs) : errs[i].rule = rule})

\* C1: every iteration of the lexer's dispatch loop ends without an abort and
\* with a strictly larger byte position, so that run returns for every source
C1_LexerTotal ==
    [][(pc = "lex" /\ source # <<>> /\ ~LexIsEof(lexer))
        => /\ pc' \in {"lex", "lexbreak"}
           /\ ~lexer'.panic
           /\ lexer'.pos > lexer.pos
           /\ lexer'.pos <= Len(source) + 1]_vars

\* run has returned on a source of three invalid bytes
C1_Witness ==
    /\ pc = "lexed"
    /\ Len(source) = 3
    /\ lexer.r = <<>>
    /\ Len(lexer.errors) = 3
    /\ \A i \in 1..3 : lexer.errors[i].rule = "UnknownCharacter"

\* C2: no parser path is fatal, parse returns for every token sequence
C2_ParseNeverFatal == ~parser.panic

\* sources made of malformed statements followed by `VACUUM ;`
TrailingVacuumSources ==
    {Join(ws) : ws \in Prod(<<MalformedRuns(MaxMalformed), {<<Kw("VACUUM"), Semi>>}>>)}

\* C3: malformed statements in front of a well-formed `VACUUM;` cannot keep
\* its Vacuum node out of the AST
C3_TrailingStatementRecognized ==
    (pc = "done" /\ source \in TrailingVacuumSources)
        => /\ parser.r # <<>>
           /\ parser.r[Len(parser.r)].type = "Vacuum"

\* C4: every iteration of the sql_stmt_list loop completes with pos advanced by
\* at least one token and not beyond tokens.len(), so that parse finishes with
\* pos = tokens.len()
C4_ParseTerminates ==
    [][(pc = "parse" /\ ~IsEof(parser))
        => /\ pc' = "parse"
           /\ parser'.pos > parser.pos
           /\ parser'.pos <= Len(toks)]_vars

\* the offset of the first Semicolon token at or after offset p
NextSemicolon(p) ==
    CHOOSE i \in p..(Len(toks) - 1) :
        /\ toks[i + 1].ttype = "Semicolon"
        /\ \A j \in p..(i - 1) : toks[j + 1].ttype # "Semicolon"

HasSemicolon(p) == \E i \in p..(Len(toks) - 1) : toks[i + 1].ttype = "Semicolon"

\* the directive, `VACUUM 25;` and `EXPLAIN VACUUM;`
ExpectExamples ==
    {Join(<<c, Kw("VACUUM"), Num25, Semi, Kw("EXPLAIN"), Kw("VACUUM"), Semi>>) :
        c \in {ExpectComment, ExpectCommentSemis}}

\* C5: an InstructionExpect token at statement position makes the parser skip
\* through the next Semicolon without a node or a diagnostic, and the statement
\* behind it is parsed: the examples give exactly Explain(Vacuum) and no error
C5_ExpectSkipsStatement ==
    /\ [](pc = "done" /\ source \in ExpectExamples
            => /\ Diagnostics = <<>>
               /\ Len(parser.r) = 1
               /\ parser.r[1].type = "Explain"
               /\ parser.r[1].child.type = "Vacuum"
               /\ parser.r[1].child.schema_name = None
               /\ parser.r[1].child.filename = None)
    /\ [][(/\ pc = "parse"
           /\ ~IsEof(parser)
           /\ Cur(parser).ttype = "InstructionExpect"
           /\ HasSemicolon(parser.pos))
            => /\ pc' = "parse"
               /\ parser'.pos = NextSemicolon(parser.pos) + 1
               /\ parser'.r = parser.r
               /\ parser'.errors = parser.errors]_vars

\* the example with `;` in the comment line is parsed to Explain(Vacuum)
C5_Witness ==
    /\ pc = "done"
    /\ source = Join(<<ExpectCommentSemis, Kw("VACUUM"), Num25, Semi, Kw("EXPLAIN"),
                       Kw("VACUUM"), Semi>>)
    /\ Len(parser.r) = 1
    /\ parser.r[1].type = "Explain"
    /\ parser.errors = <<>>

\* the directive followed by one statement and its `;`
SuppressedSources ==
    {Join(ws) : ws \in Prod(<<{<<ExpectComment>>}, Suppressed, {<<Semi>>}>>)}

\* C6: the directive suppresses every diagnostic of the following statement,
\* the lexer's as well as the parser's
C6_ExpectSuppressesAll ==
    (pc = "done" /\ source \in SuppressedSources) => Diagnostics = <<>>

\* a well-formed statement as the whole input, without its `;`
UnterminatedSources == {Join(ws) : ws \in WellFormed}

\* C7: a well-formed statement that is not followed by a Semicolon token yields
\* exactly one diagnostic of rule Semicolon
C7_OneSemicolonDiagnostic ==
    (pc = "done" /\ source \in UnterminatedSources)
        => RuleCount(Diagnostics, "Semicolon") = 1

\* `VACUUM` alone: its node and one Semicolon diagnostic
C7_Witness ==
    /\ pc = "done"
    /\ source = Join(<<Kw("VACUUM")>>)
    /\ Len(parser.r) = 1
    /\ parser.r[1].type = "Vacuum"
    /\ RuleCount(parser.errors, "Semicolon") = 1

\* C8: the Semicolon diagnostic suggests `;` at the end offset of the last
\* token of the unterminated statement
C8_SemicolonFixAtPreviousEnd ==
    (pc = "done" /\ source \in UnterminatedSources)
        => \A i \in 1..Len(parser.errors) :
              parser.errors[i].rule = "Semicolon"
                  => parser.errors[i].improved
                         = ImprovedLine(";", toks[Len(toks)].end)

\* the Alter nodes of an AST, those below Explain included
AlterNodes(r) ==
    {r[i] : i \in {j \in 1..Len(r) : r[j].type = "Alter"}}
        \cup {r[i].child : i \in {j \in 1..Len(r) : r[j].type = "Explain"
                                                     /\ r[j].child.type = "Alter"}}

\* exactly one of the four alternatives of an Alter node is set
ExactlyOneAlternative(a) ==
    \/ /\ a.rename_to # None
       /\ a.rename_column_target = None /\ a.new_column_name = None
       /\ a.add_column = None /\ a.drop_column = None
    \/ /\ a.rename_column_target # None /\ a.new_column_name # None
       /\ a.rename_to = None /\ a.add_column = None /\ a.drop_column = None
    \/ /\ a.add_column # None
       /\ a.rename_to = None /\ a.rename_column_target = None /\ a.new_column_name = None
       /\ a.drop_column = None
    \/ /\ a.drop_column # None
       /\ a.rename_to = None /\ a.rename_column_target = None /\ a.new_column_name = None
       /\ a.add_column = None

\* C9: every Alter node has exactly one of its four alternatives set
C9_AlterExactlyOne == \A a \in AlterNodes(parser.r) : ExactlyOneAlternative(a)

\* ALTER TABLE s.t ADD COLUMN c TEXT REFERENCES f ON <event> <action> ;
FkSource(event, action) ==
    Join(FkHead \o KwSeq(<<"ON", event>>) \o FkActionWords[action] \o <<Semi>>)

\* C10: each action behind ON DELETE / ON UPDATE is recorded in on_delete /
\* on_update, without a diagnostic and without consuming a token behind the clause
C10_ForeignKeyActions ==
    \A event \in {"DELETE", "UPDATE"}, action \in DOMAIN FkActionWords :
        (pc = "done" /\ source = FkSource(event, action))
            => /\ parser.errors = <<>>
               /\ Len(parser.r) = 1
               /\ parser.r[1].type = "Alter"
               /\ parser.r[1].add_column # None
               /\ LET cs == parser.r[1].add_column[1].constraints
                  IN  /\ Len(cs) = 1
                      /\ cs[1].kind = "ForeignKey"
                      /\ cs[1].fk.foreign_table = IdF.text
                      /\ cs[1].fk.references_columns = <<>>
                      /\ cs[1].fk.on_delete = IF event = "DELETE" THEN Some(action) ELSE None
                      /\ cs[1].fk.on_update = IF event = "UPDATE" THEN Some(action) ELSE None

\* the spelling of each ForeignKeyMatch
MatchWords == [Simple |-> Kw("SIMPLE"), Full |-> Kw("FULL"), Partial |-> Kw("PARTIAL")]

\* ALTER TABLE s.t ADD COLUMN c TEXT REFERENCES f MATCH <word> ;
MatchSource(word) == Join(FkHead \o <<Kw("MATCH"), word, Semi>>)

\* the foreign-key clause of the only constraint of the only statement, an
\* ALTER TABLE .. ADD COLUMN
OnlyForeignKey == parser.r[1].add_column[1].constraints[1].fk

\* C11: MATCH SIMPLE / FULL / PARTIAL is recorded in match_type; MATCH followed
\* by any other token gives a Syntax diagnostic and the parser goes on
C11_MatchType ==
    /\ \A m \in DOMAIN MatchWords :
          (pc = "done" /\ source = MatchSource(MatchWords[m]))
              => /\ parser.errors = <<>>
                 /\ Len(parser.r) = 1
                 /\ OnlyForeignKey.match_type = Some(m)
    /\ \A word \in {IdN, Num5} :
          source = MatchSource(word)
              => /\ pc # "panic"
                 /\ pc = "done" => RuleCount(parser.errors, "Syntax") >= 1

\* the column definitions added by the Alter nodes of an AST
AddedColumns(r) == {a.add_column[1] : a \in {x \in AlterNodes(r) : x.add_column # None}}

\* the foreign-key clauses of an AST
ForeignKeys(r) ==
    UNION {{c.constraints[i].fk :
               i \in {j \in 1..Len(c.constraints) : c.constraints[j].kind = "ForeignKey"}} :
           c \in AddedColumns(r)}

\* ALTER TABLE s.t ADD COLUMN c TEXT REFERENCES f <prefix> <suffix> ;
DeferSource(prefix, suffix) == Join(FkHead \o prefix \o suffix \o <<Semi>>)

\* C12: in every foreign-key clause initially_deferred implies deferrable; NOT
\* DEFERRABLE INITIALLY DEFERRED gives deferrable = initially_deferred = false and
\* only DEFERRABLE INITIALLY DEFERRED sets initially_deferred
C12_InitiallyDeferredImpliesDeferrable ==
    /\ \A fk \in ForeignKeys(parser.r) : fk.initially_deferred => fk.deferrable
    /\ \A prefix \in DeferPrefix, suffix \in DeferSuffix :
          (pc = "done" /\ source = DeferSource(prefix, suffix))
              => /\ Len(parser.r) = 1
                 /\ OnlyForeignKey.deferrable = (prefix = KwSeq(<<"DEFERRABLE">>))
                 /\ OnlyForeignKey.initially_deferred
                        = (/\ prefix = KwSeq(<<"DEFERRABLE">>)
                           /\ suffix = KwSeq(<<"INITIALLY", "DEFERRED">>))

\* NOT DEFERRABLE INITIALLY DEFERRED has been parsed without a diagnostic
C12_Witness ==
    /\ pc = "done"
    /\ source = DeferSource(KwSeq(<<"NOT", "DEFERRABLE">>), KwSeq(<<"INITIALLY", "DEFERRED">>))
    /\ parser.errors = <<>>
    /\ Len(parser.r) = 1
    /\ ~OnlyForeignKey.deferrable
    /\ ~OnlyForeignKey.initially_deferred

\* Lexer::run has returned
LexerReturned == pc \notin {"lex", "lexbreak"}

\* C13: run never returns no tokens together with no diagnostics: an empty
\* source gives exactly one NoContent diagnostic and no tokens, a source that
\* yields neither a token nor another diagnostic gives exactly one NoStatements
\* diagnostic and no tokens
C13_NeverEmptyHanded ==
    LexerReturned
        => /\ ~(toks = <<>> /\ lexer.errors = <<>>)
           /\ source = <<>>
                => /\ toks = <<>>
                   /\ Len(lexer.errors) = 1
                   /\ lexer.errors[1].rule = "NoContent"
           /\ (/\ source # <<>>
               /\ lexer.r = <<>>
               /\ \A i \in 1..Len(lexer.errors) : lexer.errors[i].rule = "NoStatements")
                => /\ toks = <<>>
                   /\ Len(lexer.errors) = 1
                   /\ lexer.errors[1].rule = "NoStatements"

\* run has returned on a line comment followed by a newline
C13_Witness ==
    /\ pc = "lexed"
    /\ source = <<45, 45, 10>>
    /\ toks = <<>>
    /\ Len(lexer.errors) = 1
    /\ lexer.errors[1].rule = "NoStatements"

\* C14: after each lexer diagnostic the lexer goes on and still produces the
\* tokens of the well-formed text behind the reported one
C14_LexerRecoversLocally ==
    \A c \in LexRecoveryCases :
        (LexerReturned /\ source = RecoverySource(c.bad))
            => /\ RuleCount(lexer.errors, c.rule) >= 1
               /\ Len(toks) = 2
               /\ toks[1].ttype = "Keyword" /\ toks[1].kw = "VACUUM"
               /\ toks[2].ttype = "Semicolon"

RECURSIVE LineStartFrom(_, _)
\* the byte offset at which line n begins, counted from offset p of line 0
LineStartFrom(n, p) ==
    IF n = 0 \/ p >= Len(source) THEN p
    ELSE LineStartFrom(IF source[p + 1] = 10 THEN n - 1 ELSE n, p + 1)

\* the bytes of line `line` from column start up to column end
Columns(line, start, end) ==
    SubSeqFrom(source, LineStartFrom(line, 0) + start + 1, LineStartFrom(line, 0) + end)

\* the character of a single-character token
PunctuationChar(ttype) ==
    CHOOSE c \in 0..255 : IF ttype = "Dot" THEN c = 46 ELSE PunctuationType(c) = ttype

\* a number text without its 0x / 0X and without its underscores
NumberDigits(s) ==
    StripUnderscore(IF Len(s) >= 2 /\ s[1] = 48 /\ (s[2] = 120 \/ s[2] = 88)
                    THEN SubSeqFrom(s, 3, Len(s)) ELSE s)

\* the span of token t is the text that produced it
SpanIsText(t) ==
    LET s == Columns(t.line, t.start, t.end)
    IN  CASE t.ttype = "Ident" -> s = t.text
          [] t.ttype = "Keyword" -> KeywordFromStr(s) = t.kw
          [] t.ttype = "Boolean" -> Lower(s) = t.text
          [] t.ttype = "Number" -> NumberDigits(s) = t.text
          [] t.ttype = "String" ->
                /\ Len(s) >= 2 /\ s[1] = 39 /\ s[Len(s)] = 39
                /\ FromUtf8OrDefault(SubSeqFrom(s, 2, Len(s) - 1)) = t.text
          [] t.ttype = "Blob" ->
                /\ Len(s) >= 3 /\ s[1] \in {88, 120} /\ s[2] = 39 /\ s[Len(s)] = 39
                /\ SubSeqFrom(s, 3, Len(s) - 1) = t.text
          [] t.ttype = "InstructionExpect" -> TRUE
          [] OTHER ->
                /\ t.start = t.end
                /\ Columns(t.line, t.start, t.start + 1) = <<PunctuationChar(t.ttype)>>

\* C15: the columns start..end of line `line` of every token hold the text that
\* produced it, quotes and X prefix included
C15_TokenSpans ==
    LexerReturned => \A i \in 1..Len(toks) : SpanIsText(toks[i])

\* the number of newlines in s
RECURSIVE CountNewlines(_)
CountNewlines(s) ==
    IF s = <<>> THEN 0 ELSE (IF s[1] = 10 THEN 1 ELSE 0) + CountNewlines(Tail(s))

\* the number of bytes of line `line`, its newline excluded
LineLength(line) ==
    LET s == LineStartFrom(line, 0)
        e == LineStartFrom(line + 1, 0)
    IN  IF e > s /\ source[e] = 10 THEN e - s - 1 ELSE e - s

\* diagnostic d lies on a line of the source, between column 0 and the column
\* after the end of that line, and the span of a BadSqleibnizInstruction starts
\* at the '@' of the instruction
SpanOnOwnLine(d) ==
    /\ d.line \in 0..CountNewlines(source)
    /\ 0 <= d.start /\ d.start <= d.end
    /\ d.end <= LineLength(d.line) + 1
    /\ d.rule = "BadSqleibnizInstruction" =>
           Columns(d.line, d.start, d.start + 1) = <<64>>

\* C16: start and end of every diagnostic of the lexer and of the parser are
\* columns of the diagnostic's own line with start <= end, on every line of the
\* source and for every rule, BadSqleibnizInstruction included
C16_DiagnosticSpans ==
    \A i \in 1..Len(Diagnostics) : SpanOnOwnLine(Diagnostics[i])

\* the 1-based index of the first quote or newline of s after index q, 0 if the
\* text ends before one
RECURSIVE QuoteEnd(_, _)
QuoteEnd(s, q) ==
    IF q >= Len(s) THEN 0
    ELSE IF s[q + 1] = 39 \/ s[q + 1] = 10 THEN q + 1
    ELSE QuoteEnd(s, q + 1)

\* index q of the source holds a quote with nothing but spaces and newlines in
\* front of it: the first thing the lexer meets
FirstQuote(q) ==
    /\ q \in 1..Len(source) /\ source[q] = 39
    /\ \A i \in 1..(q - 1) : source[i] = 32 \/ source[i] = 10

\* the quote at index q is closed at index j of its line: the first token is a
\* String with the bytes between q and j, the next token lies behind it, and no
\* diagnostic is made for it
StringLexed(q, j) ==
    /\ Len(lexer.r) >= 1
    /\ lexer.r[1].ttype = "String"
    /\ lexer.r[1].text = SubSeqFrom(source, q + 1, j - 1)
    /\ lexer.r[1].line = CountNewlines(SubSeqFrom(source, 1, q))
    /\ \A i \in 2..Len(lexer.r) :
          lexer.r[i].line > lexer.r[1].line \/ lexer.r[i].start >= lexer.r[1].end
    /\ \A i \in 1..Len(lexer.errors) :
          lexer.errors[i].line = lexer.r[1].line => lexer.errors[i].start >= lexer.r[1].end

\* the quote at index q is not closed on its line: no token comes from the line
\* and the one UnterminatedString of the line suggests a lone quote
StringUnterminated(q) ==
    LET line == CountNewlines(SubSeqFrom(source, 1, q))
        here == SelectSeq(lexer.errors, LAMBDA e : e.line = line)
    IN  /\ \A i \in 1..Len(lexer.r) : lexer.r[i].line > line
        /\ Len(here) = 1
        /\ here[1].rule = "UnterminatedString"
        /\ Len(here[1].improved) = 1
        /\ here[1].improved[1].snippet = "'"

\* C17: a quote followed on its line by a closing quote gives exactly one String
\* token holding the bytes between the two quotes, whatever these bytes are
\* (none for two adjacent quotes); a quote that
\* a newline or the end of the input follows first gives no token and exactly one
\* UnterminatedString whose suggested fix is a lone quote
C17_StringLiterals ==
    LexerReturned =>
        \A q \in 1..Len(source) :
            FirstQuote(q) =>
                IF QuoteEnd(source, q) # 0 /\ source[QuoteEnd(source, q)] = 39
                THEN StringLexed(q, QuoteEnd(source, q))
                ELSE StringUnterminated(q)

\* a string with a two-byte character on line 1 was lexed
C17_Witness ==
    /\ pc = "lexed"
    /\ source = Join(<<NewlineW, StrTwoByte, Semi>>)
    /\ FirstQuote(3)
    /\ lexer.r[1].text = <<195, 169>>

\* the line and the column of the byte at index q of the source
LineOf(q) == CountNewlines(SubSeqFrom(source, 1, q - 1))
ColumnOf(q) == q - 1 - LineStartFrom(LineOf(q), 0)

\* index q of the source holds an X or an x with nothing but spaces and newlines
\* in front of it
FirstBlob(q) ==
    /\ q \in 1..Len(source) /\ source[q] \in {88, 120}
    /\ \A i \in 1..(q - 1) : source[i] = 32 \/ source[i] = 10

\* the diagnostics and the tokens of the line of index q that start at or before
\* index j
ErrorsUpTo(q, j) ==
    SelectSeq(lexer.errors, LAMBDA e : e.line = LineOf(q) /\ e.start <= ColumnOf(j))
TokensUpTo(q, j) ==
    SelectSeq(lexer.r, LAMBDA t : t.line = LineOf(q) /\ t.start <= ColumnOf(j))

\* the blob at index q is closed at index j and holds hex digits only: one Blob
\* token with the bytes between the quotes and no diagnostic
BlobLexed(q, j) ==
    /\ Len(TokensUpTo(q, j)) = 1
    /\ TokensUpTo(q, j)[1].ttype = "Blob"
    /\ TokensUpTo(q, j)[1].text = SubSeqFrom(source, q + 2, j - 1)
    /\ ErrorsUpTo(q, j) = <<>>

\* the blob at index q is closed at index j and the byte at index bad is its
\* first that is no hex digit: no token, and one InvalidBlob at that byte
BlobBadData(q, j, bad) ==
    /\ TokensUpTo(q, j) = <<>>
    /\ Len(ErrorsUpTo(q, j)) = 1
    /\ ErrorsUpTo(q, j)[1].rule = "InvalidBlob"
    /\ ErrorsUpTo(q, j)[1].start = ColumnOf(bad)
    /\ ErrorsUpTo(q, j)[1].end = ColumnOf(bad)

\* the blob at index q is open up to index j, or bare (j = q): no token, and one
\* InvalidBlob
BlobRejected(q, j) ==
    /\ TokensUpTo(q, j) = <<>>
    /\ Len(ErrorsUpTo(q, j)) = 1
    /\ ErrorsUpTo(q, j)[1].rule = "InvalidBlob"

\* what the lexer makes of the X or x at index q
BlobOutcome(q) ==
    LET j == QuoteEnd(source, q + 1)
        bad == {i \in (q + 2)..(j - 1) : ~IsHexDigit(source[i])}
    IN  IF q = Len(source) \/ source[q + 1] # 39 THEN BlobRejected(q, q)
        ELSE IF j = 0 THEN BlobRejected(q, Len(source))
        ELSE IF source[j] = 10 THEN BlobRejected(q, j)
        ELSE IF bad = {} THEN BlobLexed(q, j)
        ELSE BlobBadData(q, j, CHOOSE i \in bad : \A k \in bad : i <= k)

\* C18: X' or x' with hex digits up to a closing quote gives exactly one Blob
\* token holding the bytes between the quotes;
\* content with a character that is no hex digit gives no Blob token and one
\* InvalidBlob whose start and end are the column of the first such character;
\* an open blob and an X or x without a quote give an InvalidBlob and no token
C18_BlobLiterals ==
    LexerReturned => \A q \in 1..Len(source) : FirstBlob(q) => BlobOutcome(q)

\* X'12Y' on line 1 was reported at the column of the Y
C18_Witness ==
    /\ LexerReturned
    /\ source = Join(<<NewlineW, BlobBadHex>>)
    /\ FirstBlob(3)
    /\ Len(lexer.errors) = 1
    /\ lexer.errors[1].rule = "InvalidBlob"
    /\ lexer.errors[1].start = 5

\* the index behind the run of numeric characters that starts at index i of s
RECURSIVE RunEnd(_, _)
RunEnd(s, i) == IF i <= Len(s) /\ LexIsSqliteNum(s[i]) THEN RunEnd(s, i + 1) ELSE i

\* index q of the source holds a digit or a '.', with nothing but spaces and
\* newlines in front of it
FirstNumeric(q) ==
    /\ q \in 1..Len(source) /\ (IsDigit(source[q]) \/ source[q] = 46)
    /\ \A i \in 1..(q - 1) : source[i] = 32 \/ source[i] = 10

\* the '.' at index q has a numeric continuation: a digit, '_', 'e' or 'E'
DotContinues(q) ==
    q < Len(source) /\ (IsDigit(source[q + 1]) \/ source[q + 1] \in {95, 101, 69})

\* the text at index q starts with 0x or 0X
HexPrefix(q) == source[q] = 48 /\ q < Len(source) /\ source[q + 1] \in {120, 88}

\* the index behind the numeric run that starts at index q
NumericEnd(q) == RunEnd(source, IF HexPrefix(q) THEN q + 2 ELSE q)

\* the run that starts at index q converts to a number
Converts(q) ==
    IF HexPrefix(q)
    THEN HexValid(StripUnderscore(SubSeqFrom(source, q + 2, NumericEnd(q) - 1)))
    ELSE DecValid(StripUnderscore(SubSeqFrom(source, q, NumericEnd(q) - 1)))

\* the run at index q gave no token and one InvalidNumericLiteral
NumericRejected(q) ==
    /\ TokensUpTo(q, NumericEnd(q) - 1) = <<>>
    /\ Len(ErrorsUpTo(q, NumericEnd(q) - 1)) = 1
    /\ ErrorsUpTo(q, NumericEnd(q) - 1)[1].rule = "InvalidNumericLiteral"

\* the '.' at index q gave a Dot token and no diagnostic
DotLexed(q) ==
    /\ Len(TokensUpTo(q, q)) = 1
    /\ TokensUpTo(q, q)[1].ttype = "Dot"
    /\ ErrorsUpTo(q, q) = <<>>

\* the texts that no conversion accepts
BadNumberWords == {NumBadHex, Num0X, NumDotE, NumDotBigE, NumDotEs, NumBadExp}

\* C19: a run of numeric characters that starts at a digit, or at a '.' followed
\* by a digit, '_', 'e' or 'E', and that fails conversion (0x, 0X, .e, .E, .eeee
\* and 12.e+-15 do) gives no token and exactly one InvalidNumericLiteral; a '.'
\* with no numeric continuation gives a Dot token and no diagnostic
C19_InvalidNumbers ==
    LexerReturned =>
        /\ \A q \in 1..Len(source) :
              FirstNumeric(q) =>
                  IF source[q] = 46 /\ ~DotContinues(q) THEN DotLexed(q)
                  ELSE ~Converts(q) => NumericRejected(q)
        /\ \A w \in BadNumberWords :
              source = w.text =>
                  /\ lexer.r = <<>>
                  /\ Len(lexer.errors) = 1
                  /\ lexer.errors[1].rule = "InvalidNumericLiteral"

\* 12.e+-15 on line 1 was reported
C19_Witness ==
    /\ LexerReturned
    /\ source = Join(<<NewlineW, NumBadExp, Semi>>)
    /\ FirstNumeric(3) /\ ~Converts(3)
    /\ Len(lexer.errors) = 1
    /\ lexer.errors[1].rule = "InvalidNumericLiteral"

\* the digits of the hexadecimal literal at index q, without the underscores
HexDigitsAt(q) == StripUnderscore(SubSeqFrom(source, q + 2, NumericEnd(q) - 1))

\* index q holds 0x or 0X followed by 1 to 16 hex digits, with or without
\* underscores between them
HexLiteral(q) ==
    /\ FirstNumeric(q) /\ HexPrefix(q)
    /\ Len(HexDigitsAt(q)) \in 1..16
    /\ \A i \in (q + 2)..(NumericEnd(q) - 1) : IsHexDigit(source[i]) \/ source[i] = 95

\* the literal at index q gave one Number token with its digits and no diagnostic
HexLexed(q) ==
    /\ Len(TokensUpTo(q, NumericEnd(q) - 1)) = 1
    /\ TokensUpTo(q, NumericEnd(q) - 1)[1].ttype = "Number"
    /\ TokensUpTo(q, NumericEnd(q) - 1)[1].text = HexDigitsAt(q)
    /\ ErrorsUpTo(q, NumericEnd(q) - 1) = <<>>

\* C20: every 0x or 0X followed by 1 to 16 hex digits, underscores allowed, is
\* a 64-bit two's-complement integer: it gives one Number token and no
\* diagnostic, 0x8000000000000000 (the smallest negative one) included
C20_HexTwosComplement ==
    LexerReturned => \A q \in 1..Len(source) : HexLiteral(q) => HexLexed(q)

\* the index behind the run of identifier characters that starts at index i of s
RECURSIVE IdentEnd(_, _)
IdentEnd(s, i) == IF i <= Len(s) /\ LexIsIdent(s[i]) THEN IdentEnd(s, i + 1) ELSE i

\* index q of the source holds a letter or '_' with nothing but spaces and
\* newlines in front of it
FirstIdent(q) ==
    /\ q \in 1..Len(source) /\ (IsAlpha(source[q]) \/ source[q] = 95)
    /\ \A i \in 1..(q - 1) : source[i] = 32 \/ source[i] = 10

\* the run of identifier characters at index q
IdentRun(q) == SubSeqFrom(source, q, IdentEnd(source, q) - 1)

\* token t is what the run `run` stands for: its keyword, its truth value, or
\* an identifier with its text
TokenOfRun(t, run) ==
    IF KeywordFromStr(run) # "" THEN t.ttype = "Keyword" /\ t.kw = KeywordFromStr(run)
    ELSE IF Lower(run) \in {TextTrue, TextFalse}
    THEN t.ttype = "Boolean" /\ t.text = Lower(run)
    ELSE t.ttype = "Ident" /\ t.text = run

\* the run at index q gave one token that covers it, and no diagnostic
IdentLexed(q) ==
    /\ Len(TokensUpTo(q, IdentEnd(source, q) - 1)) = 1
    /\ TokenOfRun(TokensUpTo(q, IdentEnd(source, q) - 1)[1], IdentRun(q))
    /\ TokensUpTo(q, IdentEnd(source, q) - 1)[1].start = ColumnOf(q)
    /\ TokensUpTo(q, IdentEnd(source, q) - 1)[1].end = ColumnOf(q) + Len(IdentRun(q))
    /\ ErrorsUpTo(q, IdentEnd(source, q) - 1) = <<>>

\* index q holds the X' or x' that opens a blob
BlobStart(q) == source[q] \in {88, 120} /\ q < Len(source) /\ source[q + 1] = 39

\* C21: a run of letters, digits and '_' that starts with a letter or '_' gives
\* exactly one token that covers the whole run, a Keyword when the run is a
\* keyword in any case, a Boolean when it is true or false in any case, an
\* Ident with the text of the run otherwise, and no diagnostic (X' and x' open
\* a blob and are no such run)
C21_IdentifierRuns ==
    LexerReturned =>
        \A q \in 1..Len(source) : (FirstIdent(q) /\ ~BlobStart(q)) => IdentLexed(q)

\* the index of the '*' of the first "*/" of s at or behind index i, 0 if none
RECURSIVE CommentEnd(_, _)
CommentEnd(s, i) ==
    IF i >= Len(s) THEN 0
    ELSE IF s[i] = 42 /\ s[i + 1] = 47 THEN i
    ELSE CommentEnd(s, i + 1)

\* index q of the source holds the "/*" that opens a comment, with nothing but
\* spaces and newlines in front of it
FirstComment(q) ==
    /\ q \in 1..(Len(source) - 1) /\ source[q] = 47 /\ source[q + 1] = 42
    /\ \A i \in 1..(q - 1) : source[i] = 32 \/ source[i] = 10

\* no diagnostic comes from the comment: there is none at all, or the one that
\* tells that the source holds no statement
NoCommentDiagnostic ==
    \/ lexer.errors = <<>>
    \/ lexer.r = <<>> /\ Len(lexer.errors) = 1 /\ lexer.errors[1].rule = "NoStatements"

\* lexing goes on at index k behind the comment: nothing when the source ends
\* there, and the token of the character at k when that is a punctuation
\* character
ResumesAt(k) ==
    /\ k > Len(source) => lexer.r = <<>> /\ NoCommentDiagnostic
    /\ (k <= Len(source) /\ PunctuationType(source[k]) # "") =>
           /\ Len(lexer.r) >= 1
           /\ lexer.r[1].ttype = PunctuationType(source[k])
           /\ lexer.r[1].line = LineOf(k)
           /\ lexer.r[1].start = ColumnOf(k)
           /\ \A i \in 1..Len(lexer.errors) :
                 \/ lexer.errors[i].line > LineOf(k)
                 \/ lexer.errors[i].line = LineOf(k) /\ lexer.errors[i].start > ColumnOf(k)

\* C22: a comment that opens with "/*" runs through the first "*/" behind it, or
\* to the end of the input when there is none, and gives no token and no
\* diagnostic; lexing goes on at the byte behind the "*/", so "/**/*" gives one
\* Asterisk and "/* c */;" one Semicolon
C22_BlockComments ==
    LexerReturned =>
        /\ \A q \in 1..Len(source) :
              FirstComment(q) =>
                  IF CommentEnd(source, q + 2) = 0 THEN ResumesAt(Len(source) + 1)
                  ELSE ResumesAt(CommentEnd(source, q + 2) + 2)
        /\ source = CommentStar.text =>
              Len(lexer.r) = 1 /\ lexer.r[1].ttype = "Asterisk" /\ lexer.errors = <<>>
        /\ source = CommentSemi.text =>
              Len(lexer.r) = 1 /\ lexer.r[1].ttype = "Semicolon" /\ lexer.errors = <<>>

\* the index of the last newline among the first n bytes of the source, 0 if none
RECURSIVE LastNewline(_)
LastNewline(n) == IF n = 0 THEN 0 ELSE IF source[n] = 10 THEN n ELSE LastNewline(n - 1)

\* line and line_pos of the lexer are the line and the column of its position
PositionTracked ==
    lexer.pos <= Len(source) =>
        /\ lexer.line = CountNewlines(SubSeqFrom(source, 1, lexer.pos))
        /\ lexer.line_pos = lexer.pos - LastNewline(lexer.pos)

\* C23: while the position of the lexer is at most the length of the source it
\* never decreases, line is the number of newlines in front of it, and line_pos
\* is the number of bytes since the last newline in front of it (since the start
\* of the input when there is none): the column is zero behind every newline
C23_PositionTracking ==
    /\ []PositionTracked
    /\ [][lexer'.pos >= lexer.pos]_vars

\* the lexer stands inside line 2, behind two newlines
C23_Witness ==
    /\ pc = "lex"
    /\ lexer.pos < Len(source)
    /\ lexer.line = 2
    /\ lexer.line_pos > 0

\* the sources BEGIN <kind> <kind> [..] ; <tail>, with the first kind and the tail
BeginCases ==
    {[src |-> Join(BeginTwice(k1, k2, extra, tail)), kind |-> k1, tail |-> tail] :
        k1 \in TransactionKinds, k2 \in TransactionKinds, extra \in BeginExtras,
        tail \in BeginTails}

\* the nodes behind the first are those of the tail: none, or one Vacuum
TailParsed(tail) ==
    IF tail = <<>> THEN Len(parser.r) = 1
    ELSE /\ Len(parser.r) = 2
         /\ parser.r[2].type = "Vacuum"
         /\ parser.r[2].schema_name # None <=> Len(tail) = 3

\* C24: BEGIN with one kind (DEFERRED, IMMEDIATE or EXCLUSIVE) and then a further
\* kind gives exactly one Syntax diagnostic and nothing else, skips to the next
\* `;`, still gives a Begin node with the first kind, and the statements behind
\* that `;` are parsed
C24_BeginSecondModifier ==
    \A c \in BeginCases :
        (pc = "done" /\ source = c.src) =>
            /\ Len(Diagnostics) = 1
            /\ Diagnostics[1].rule = "Syntax"
            /\ Len(parser.r) >= 1
            /\ parser.r[1].type = "Begin"
            /\ parser.r[1].transaction_kind = Some(c.kind)
            /\ TailParsed(c.tail)

\* BEGIN IMMEDIATE DEFERRED EXCLUSIVE s ; VACUUM s ; was parsed
C24_Witness ==
    /\ pc = "done"
    /\ source = Join(BeginTwice("IMMEDIATE", "DEFERRED", <<Kw("EXCLUSIVE"), IdS>>,
                                <<Kw("VACUUM"), IdS, Semi>>))
    /\ Len(parser.r) = 2
    /\ parser.r[1].transaction_kind = Some("IMMEDIATE")
    /\ Len(parser.errors) = 1

\* the index of the first Semicolon token at or behind index i, Len(toks) + 1
\* when there is none
RECURSIVE FirstSemicolon(_)
FirstSemicolon(i) ==
    IF i > Len(toks) THEN i
    ELSE IF toks[i].ttype = "Semicolon" THEN i
    ELSE FirstSemicolon(i + 1)

\* the kind of token i: its type, or INTO for that keyword
VacuumWord(i) ==
    IF toks[i].ttype = "Keyword" /\ toks[i].kw = "INTO" THEN "INTO" ELSE toks[i].ttype

\* the kinds of the tokens between VACUUM and the first `;`
VacuumShape == [i \in 1..(FirstSemicolon(1) - 2) |-> VacuumWord(i + 1)]

\* the four shapes VACUUM accepts when a `;` ends them
VacuumShapes == {<<>>, <<"Ident">>, <<"INTO", "String">>, <<"Ident", "INTO", "String">>}

\* the tokens are a statement that starts with VACUUM
VacuumFirst ==
    /\ pc = "done"
    /\ Len(toks) >= 1
    /\ toks[1].ttype = "Keyword" /\ toks[1].kw = "VACUUM"

\* the Vacuum node holds the schema and the file name that are present
VacuumNode(v) ==
    /\ v.type = "Vacuum"
    /\ v.schema_name =
          IF Len(VacuumShape) \in {1, 3} THEN Some(toks[2]) ELSE None
    /\ v.filename =
          IF Len(VacuumShape) \in {2, 3} THEN Some(toks[FirstSemicolon(1) - 1]) ELSE None

\* the token in schema position is no identifier, or the one behind INTO is no
\* string
VacuumMisplaced ==
    \/ Len(toks) >= 2 /\ VacuumWord(2) \notin {"Semicolon", "Ident", "INTO"}
    \/ \E i \in 2..3 :
          /\ i <= Len(toks) /\ VacuumWord(i) = "INTO"
          /\ i = 3 => toks[2].ttype = "Ident"
          /\ i = Len(toks) \/ toks[i + 1].ttype # "String"

\* C25: VACUUM accepts exactly four shapes, `VACUUM;`, `VACUUM <ident>;`,
\* `VACUUM INTO <string>;` and `VACUUM <ident> INTO <string>;`: each gives no
\* diagnostic and a Vacuum node whose schema_name and filename are the tokens
\* present, every other statement that starts with VACUUM gives a diagnostic,
\* and a token in schema position that is no identifier, or one behind INTO that
\* is no string, gives a Syntax diagnostic
C25_VacuumShapes ==
    VacuumFirst =>
        /\ (FirstSemicolon(1) = Len(toks) /\ VacuumShape \in VacuumShapes) =>
               /\ Diagnostics = <<>>
               /\ Len(parser.r) = 1
               /\ VacuumNode(parser.r[1])
        /\ (FirstSemicolon(1) > Len(toks) \/ VacuumShape \notin VacuumShapes) =>
               Diagnostics # <<>>
        /\ VacuumMisplaced => RuleCount(parser.errors, "Syntax") >= 1

\* VACUUM s INTO 'f'; was parsed
C25_Witness ==
    /\ VacuumFirst
    /\ source = Join(<<Kw("VACUUM"), IdS, Kw("INTO"), StrF, Semi>>)
    /\ Len(parser.r) = 1
    /\ parser.r[1].schema_name = Some(toks[2])
    /\ parser.r[1].filename = Some(toks[4])

\* the node type of the statement that keyword kw starts, "" when it starts none
StatementType(kw) ==
    CASE kw = "PRAGMA" -> "Pragma"
      [] kw = "ALTER" -> "Alter"
      [] kw = "ATTACH" -> "Attach"
      [] kw = "REINDEX" -> "Reindex"
      [] kw = "RELEASE" -> "Release"
      [] kw = "SAVEPOINT" -> "Savepoint"
      [] kw = "DROP" -> "Drop"
      [] kw = "ANALYZE" -> "Analyze"
      [] kw = "DETACH" -> "Detach"
      [] kw = "ROLLBACK" -> "Rollback"
      [] kw \in {"COMMIT", "END"} -> "Commit"
      [] kw = "BEGIN" -> "Begin"
      [] kw = "VACUUM" -> "Vacuum"
      [] OTHER -> ""

\* the statements of the corpus that are accepted, with and without EXPLAIN in
\* front, and the type of their node
ExplainCases ==
    {[src |-> Join(head \o w \o <<Semi>>), alone |-> Join(w \o <<Semi>>),
      type |-> StatementType(w[1].kw)] : head \in ExplainHeads, w \in Explainable}

\* the index of the token behind EXPLAIN or EXPLAIN QUERY PLAN
ExplainChildIndex ==
    IF /\ Len(toks) >= 3
       /\ toks[2].ttype = "Keyword" /\ toks[2].kw = "QUERY"
       /\ toks[3].ttype = "Keyword" /\ toks[3].kw = "PLAN"
    THEN 4 ELSE 2

\* the tokens start with EXPLAIN or EXPLAIN QUERY PLAN and no statement follows
ExplainsNothing ==
    /\ Len(toks) >= 1
    /\ toks[1].ttype = "Keyword" /\ toks[1].kw = "EXPLAIN"
    /\ toks[ExplainChildIndex - 1].kw \in {"EXPLAIN", "PLAN"}
    /\ \/ ExplainChildIndex > Len(toks)
       \/ toks[ExplainChildIndex].ttype # "Keyword"
       \/ StatementType(toks[ExplainChildIndex].kw) = ""

\* C26: EXPLAIN, with or without QUERY PLAN, in front of a statement that is
\* accepted gives exactly one Explain node whose child is the node of that
\* statement, and no diagnostic; when no statement follows (EXPLAIN; and
\* EXPLAIN QUERY PLAN;) there is no Explain node for it and at least one
\* diagnostic
C26_ExplainPrefix ==
    pc = "done" =>
        /\ \A c \in ExplainCases :
              /\ source = c.alone =>
                    Diagnostics = <<>> /\ Len(parser.r) = 1 /\ parser.r[1].type = c.type
              /\ source = c.src =>
                    /\ Diagnostics = <<>>
                    /\ Len(parser.r) = 1
                    /\ parser.r[1].type = "Explain"
                    /\ parser.r[1].t = toks[1]
                    /\ parser.r[1].child.type = c.type
                    /\ parser.r[1].child.t = toks[ExplainChildIndex]
        /\ ExplainsNothing =>
              /\ Diagnostics # <<>>
              /\ \A i \in 1..Len(parser.r) :
                    ~(parser.r[i].type = "Explain" /\ parser.r[i].t = toks[1])

\* EXPLAIN QUERY PLAN PRAGMA p = 5; was parsed
C26_Witness ==
    /\ pc = "done"
    /\ source = Join(KwSeq(<<"EXPLAIN", "QUERY", "PLAN", "PRAGMA">>) \o <<IdP, EqualW, Num5, Semi>>)
    /\ Len(parser.r) = 1
    /\ parser.r[1].type = "Explain"
    /\ parser.r[1].child.type = "Pragma"

\* the Pragma nodes of the AST, those under an Explain included
PragmaNodes ==
    {n \in {parser.r[i] : i \in 1..Len(parser.r)}
           \cup {parser.r[i].child : i \in {j \in 1..Len(parser.r) : parser.r[j].type = "Explain"}} :
        n.type = "Pragma"}

\* the kinds of token a pragma takes as value
PragmaValueKinds == {"String", "Number", "Ident", "Keyword"}

\* the tokens start with PRAGMA <name> = or PRAGMA <name> ( and the token behind
\* is no value, or is missing
PragmaBadValue ==
    /\ Len(toks) >= 3
    /\ toks[1].ttype = "Keyword" /\ toks[1].kw = "PRAGMA"
    /\ toks[2].ttype = "Ident"
    /\ toks[3].ttype \in {"Equal", "BraceLeft"}
    /\ Len(toks) >= 4 => toks[4].ttype \notin PragmaValueKinds

\* C27: the value of every Pragma node that assigns or calls is a String, Number,
\* Ident or Keyword token; a token of another kind in value position, a `;` and
\* the end of the input included, gives a Syntax diagnostic and is never the
\* value of the node
C27_PragmaValue ==
    pc = "done" =>
        /\ \A n \in PragmaNodes :
              n.invocation.kind \in {"Assign", "Call"} =>
                  n.invocation.value.ttype \in PragmaValueKinds
        /\ PragmaBadValue =>
              /\ RuleCount(parser.errors, "Syntax") >= 1
              /\ \A n \in PragmaNodes :
                    (n.t = toks[1] /\ Len(toks) >= 4) => n.invocation.value # toks[4]

\* the affinity of a declared type name
Affinity(name) ==
    IF \E w \in {TextVARCHAR, TextCLOB, TextTEXT} : Contains(name, w) THEN "Text"
    ELSE IF Contains(name, TextBLOB) THEN "Blob"
    ELSE IF \E w \in {TextREAL, TextFLOA, TextDOUB} : Contains(name, w) THEN "Real"
    ELSE "Integer"

\* the type name is one SQLite knows
KnownTypeName(name) ==
    name \in {TextTEXT, TextBLOB, TextREAL, TextINT, TextINTEGER} \/ Contains(name, TextVARCHAR)

\* the sources ALTER TABLE t ADD COLUMN c [<type> [<size>]] ; with the type name,
\* <<>> when none is declared
TypeCases ==
    {[src |-> Join(TypedColumn(name, size)), name |-> name] :
        name \in TypeNames \cup {<<>>}, size \in TypeSizes}

\* C28: a column without a declared type is accepted with exactly one Quirk
\* diagnostic and type_name None; a declared type name gives the type_name of its
\* affinity (Text when it contains VARCHAR, CLOB or TEXT, else Blob when it
\* contains BLOB, else Real when it contains REAL, FLOA or DOUB, else Integer) and
\* a Quirk diagnostic exactly when it is none of TEXT, BLOB, REAL, INT, INTEGER
\* and does not contain VARCHAR
C28_ColumnTypeName ==
    \A c \in TypeCases :
        (pc = "done" /\ source = c.src) =>
            /\ Len(parser.r) = 1
            /\ parser.r[1].type = "Alter"
            /\ parser.r[1].add_column # None
            /\ parser.r[1].add_column[1].type_name =
                  IF c.name = <<>> THEN None ELSE Some(Affinity(c.name))
            /\ RuleCount(Diagnostics, "Quirk") =
                  IF c.name = <<>> \/ ~KnownTypeName(c.name) THEN 1 ELSE 0
            /\ Len(Diagnostics) = RuleCount(Diagnostics, "Quirk")

\* ALTER TABLE t ADD COLUMN c BLOBTEXT ( 5 ) ; was parsed
C28_Witness ==
    /\ pc = "done"
    /\ source = Join(TypedColumn(TypeBlobtext, <<BraceLeftW, Num5, BraceRightW>>))
    /\ Len(parser.r) = 1
    /\ parser.r[1].add_column[1].type_name = Some("Text")
    /\ Len(parser.errors) = 1

\* the diagnostics that Parser::expr emits for a sigil without a name
BindDiagnostics == {i \in 1..Len(Diagnostics) : Diagnostics[i].msg = "Invalid bind parameter"}

\* the parse made one Attach node whose expression is a bind parameter, without
\* any diagnostic
BindAccepted ==
    /\ Diagnostics = <<>>
    /\ Len(parser.r) = 1
    /\ parser.r[1].type = "Attach"
    /\ parser.r[1].expr.literal = None
    /\ parser.r[1].expr.bind # None

\* the token type of a sigil
SigilType(g) == IF g = ColonW THEN "Colon" ELSE IF g = AtW THEN "At" ELSE "Dollar"

\* C29: in expr a `:`, `@` or `$` followed by an Ident gives an Expr whose bind
\* parameter has the name of that ident, without a diagnostic; not followed by
\* an Ident it gives exactly one Syntax diagnostic and no expression; a `?`, with
\* or without a Number behind it, is accepted without a diagnostic
C29_BindParameters ==
    pc = "done" =>
        /\ \A ws \in BindNamed :
               source = Join(ws) =>
                   /\ BindAccepted
                   /\ parser.r[1].expr.bind[1].name = Some(IdName.text)
                   /\ parser.r[1].expr.bind[1].counter = None
                   /\ \A g \in Sigils :
                          (\E i \in 1..Len(ws) : ws[i] = g)
                              => parser.r[1].expr.bind[1].t.ttype = SigilType(g)
        /\ \A ws \in BindNumbered :
               source = Join(ws) =>
                   /\ BindAccepted
                   /\ parser.r[1].expr.bind[1].t.ttype = "Question"
                   /\ parser.r[1].expr.bind[1].name = None
                   /\ (parser.r[1].expr.bind[1].counter = None) <=> (QuestionW \in {ws[Len(ws) - 3]})
        /\ \A ws \in BindUnnamed :
               source = Join(ws) =>
                   /\ Cardinality(BindDiagnostics) = 1
                   /\ \A i \in BindDiagnostics : Diagnostics[i].rule = "Syntax"
                   /\ parser.r = <<>>
                   /\ (ws[Len(ws) - 1] = Num5) => Len(Diagnostics) = 1

\* ATTACH DATABASE $ name AS s ; gave a bind parameter named name
C29_Witness ==
    /\ pc = "done"
    /\ source = Join(<<Kw("ATTACH"), Kw("DATABASE"), DollarW, IdName>> \o AttachTail)
    /\ Len(parser.r) = 1
    /\ parser.r[1].expr.bind[1].name = Some(IdName.text)
    /\ parser.r[1].expr.bind[1].t.ttype = "Dollar"

\* C30: a textDocument/diagnostic request for an open document is answered with
\* the diagnostics of the latest text of that document, whatever other documents
\* were opened or changed in between
C30_DiagnosticsPerDocument ==
    \A uri \in Uris :
        (/\ reply # None
         /\ reply[1].method = "textDocument/diagnostic"
         /\ reply[1].uri = uri
         /\ latest[uri] # None)
            => reply[1].errors = latest[uri][1].errors

\* the positions in the diagnostics of the current file whose rule is, or is
\* not, disabled
DiagnosticsWhere(disabled) ==
    {i \in 1..Len(Diagnostics) : (Diagnostics[i].rule \in args.disabled_rules) = disabled}

\* C31: a run that has read every one of its files ends with the exit status 0
\* exactly when no file gave a diagnostic of a rule that is not disabled; a
\* diagnostic of a disabled rule is never rendered and is counted as ignored, so
\* that errors and ignored_errors of a file add up to the number of its lexer and
\* parser diagnostics
C31_ExitStatus ==
    /\ pc = "filed" =>
           /\ files[file].errors = Cardinality(DiagnosticsWhere(FALSE))
           /\ files[file].ignored_errors = Cardinality(DiagnosticsWhere(TRUE))
           /\ files[file].errors + files[file].ignored_errors = Len(Diagnostics)
    /\ \A i \in 1..Len(error_string_builder) :
           "rule" \in DOMAIN error_string_builder[i]
               => error_string_builder[i].rule \notin args.disabled_rules
    /\ (pc = "exit" /\ file > 0 /\ file = Len(files) /\ files[file].content # None) =>
           (status = Some(0)
               <=> /\ \A i \in 1..(file - 1) : files[i].errors = 0
                   /\ DiagnosticsWhere(FALSE) = {})

IsPrefix(s, t) == Len(s) <= Len(t) /\ SubSeq(t, 1, Len(s)) = s

\* the k-th diagnostic of the current file, in the order lexer then parser,
\* whose rule is not disabled
KeptDiagnostic(k) ==
    Diagnostics[CHOOSE i \in DiagnosticsWhere(FALSE) :
                    Cardinality({j \in DiagnosticsWhere(FALSE) : j <= i}) = k]

\* the step analyses the current file
AnalysisStep == pc \in {"lex", "lexbreak", "lexed", "parse"}

\* the step filters and renders the diagnostics of the current file
RenderStep == pc = "done" /\ pc' = "filed" /\ ~args.silent

\* the diagnostics among the entries that were written behind the first n
\* entries of the builder b, without the header and the newlines
RenderedBehind(n, b) ==
    SelectSeq(SubSeq(b, n + 1, Len(b)), LAMBDA x : "rule" \in DOMAIN x)

\* C32: while a file is lexed and parsed the diagnostics only grow at the end
\* (the list before a step is a prefix of the list after it), and the renderer
\* prints the lexer's diagnostics and then the parser's, each in the order of
\* emission, without those of a disabled rule
C32_EncounterOrder ==
    [][/\ AnalysisStep => /\ IsPrefix(lexer.errors, lexer'.errors)
                         /\ IsPrefix(parser.errors, parser'.errors)
       /\ RenderStep =>
              /\ IsPrefix(error_string_builder, error_string_builder')
              /\ Len(RenderedBehind(Len(error_string_builder), error_string_builder')) =
                     Cardinality(DiagnosticsWhere(FALSE))
              /\ \A k \in 1..Cardinality(DiagnosticsWhere(FALSE)) :
                     RenderedBehind(Len(error_string_builder), error_string_builder')[k]
                         = KeptDiagnostic(k)
      ]_vars

\* 0x VACUUM was rendered with Semicolon disabled: the lexer's diagnostic and two
\* of the parser's three
C32_Witness ==
    /\ pc = "filed"
    /\ ~args.silent
    /\ args.disabled_rules = {"Semicolon"}
    /\ source = Join(<<NumBadHex, Kw("VACUUM")>>)
    /\ Len(lexer.errors) = 1
    /\ Len(parser.errors) = 3
    /\ files[file].ignored_errors = 1
    /\ Len(error_string_builder) >= 6
    /\ error_string_builder[Len(error_string_builder) - 5] = [header |-> file]
    /\ error_string_builder[Len(error_string_builder) - 4] = lexer.errors[1]
    /\ error_string_builder[Len(error_string_builder) - 2] = parser.errors[1]
    /\ error_string_builder[Len(error_string_builder)] = parser.errors[2]

\* the node made from the source is the Alter node e, whatever its token
OnlyAlter(src, e) ==
    (pc = "done" /\ source = Join(src)) =>
        /\ Diagnostics = <<>>
        /\ Len(parser.r) = 1
        /\ [parser.r[1] EXCEPT !.t = e.t] = e

RenamedTable(new) ==
    [AlterNew(EofToken) EXCEPT !.target = SchemaAndTable(IdS.text, IdT.text),
                               !.rename_to = Some(new.text)]

RenamedColumn(new) ==
    [AlterNew(EofToken) EXCEPT !.target = SchemaAndTable(IdS.text, IdT.text),
                               !.rename_column_target = Some(IdC.text),
                               !.new_column_name = Some(new.text)]

\* C33: ALTER TABLE s.t RENAME TO <new>; gives, without a diagnostic, one Alter
\* node with target SchemaAndTable{s, t}, rename_to the new name and every other
\* field None; RENAME [COLUMN] c TO <new> sets rename_column_target and
\* new_column_name only
C33_AlterRename ==
    \A new \in RenameNames :
        /\ OnlyAlter(RenameTable(new), RenamedTable(new))
        /\ \A column \in {<<>>, <<Kw("COLUMN")>>} :
               OnlyAlter(RenameColumn(column, new), RenamedColumn(new))

\* the dispatch loop stands on a `-` that no second `-` follows
DashAlone ==
    /\ pc = "lex"
    /\ lexer.pos < Len(source)
    /\ source[lexer.pos + 1] = 45
    /\ (lexer.pos + 2 <= Len(source)) => source[lexer.pos + 2] # 45

\* C34: a `-` without a second `-` behind it gives exactly one Syntax diagnostic
\* and ends the lexer: the tokens lexed so far are returned as they are, nothing
\* behind the `-` becomes a token, and no NoStatements diagnostic is added
C34_LoneDashStops ==
    [][/\ DashAlone =>
              /\ pc' = "lexbreak"
              /\ lexer'.r = lexer.r
              /\ Len(lexer'.errors) = Len(lexer.errors) + 1
              /\ SubSeq(lexer'.errors, 1, Len(lexer.errors)) = lexer.errors
              /\ lexer'.errors[Len(lexer'.errors)].rule = "Syntax"
       /\ pc = "lexbreak" =>
              /\ pc' = "lexed"
              /\ toks' = lexer.r
              /\ lexer'.errors = lexer.errors
      ]_vars

\* `; - ;` was lexed: the first `;` is the only token, the `-` the only diagnostic
C34_Witness ==
    /\ pc = "lexed"
    /\ source = <<59, 45, 59>>
    /\ Len(toks) = 1
    /\ toks[1].ttype = "Semicolon"
    /\ Len(lexer.errors) = 1
    /\ lexer.errors[1].rule = "Syntax"

\* the statement loop stands on an InstructionExpect token that no Semicolon
\* follows
ExpectAtEnd ==
    /\ pc = "parse"
    /\ Cur(parser).ttype = "InstructionExpect"
    /\ \A i \in (parser.pos + 1)..Len(toks) : toks[i].ttype # "Semicolon"

\* C35: an InstructionExpect token followed by the end of input before any
\* Semicolon needs no `;`: the parser reports nothing for it and makes no node
C35_TrailingExpect ==
    [][ExpectAtEnd => /\ parser'.errors = parser.errors
                      /\ parser'.r = parser.r
                      /\ pc' = "parse"]_vars

\* token a lies in front of token b and does not reach into it
InSourceOrder(a, b) ==
    \/ a.line < b.line
    \/ /\ a.line = b.line
       /\ a.start <= a.end
       /\ a.end <= b.start
       /\ a.start < b.start

\* token a lies on one line of the source
OnSingleLine(a) ==
    /\ a.line \in 0..CountNewlines(source)
    /\ 0 <= a.start
    /\ a.start <= a.end
    /\ a.end <= LineLength(a.line)

\* C36: the tokens the lexer returns are in source order and do not overlap, and
\* every token lies on a single line
C36_TokenOrder ==
    LexerReturned =>
        /\ \A i \in 1..(Len(toks) - 1) : InSourceOrder(toks[i], toks[i + 1])
        /\ \A i \in 1..Len(toks) : OnSingleLine(toks[i])

\* a string on line 1 and the `;` behind it were lexed
C36_Witness ==
    /\ pc = "lexed"
    /\ Len(toks) = 2
    /\ toks[1].ttype = "String"
    /\ toks[1].line = 1
    /\ toks[2].ttype = "Semicolon"
    /\ toks[2].line = 1
    /\ toks[1].start < toks[1].end
    /\ toks[1].end <= toks[2].start

(***************************************************************************)
(* The JSON projection of the syntax tree: parser/nodes.rs, parser/debug.rs *)
(***************************************************************************)
\* Token::new: a token of the given kind and payload at span 0
TokenNew(ttype, kw, text) == Tok(ttype, kw, text, 0, 0, 0)

\* #[derive(Serialize)] of Token: the kind, the payload and the span
TokenDerivedSerialize(tok) ==
    [ttype |-> tok.ttype, kw |-> tok.kw, text |-> tok.text,
     start |-> tok.start, end |-> tok.end, line |-> tok.line]

\* impl FieldSerializable for Token: serde_json::to_value(&self.ttype), the
\* kind and its payload
TokenFieldAsSerializable(tok) == [ttype |-> tok.ttype, kw |-> tok.kw, text |-> tok.text]

\* the declared type of a field of a node!: the fields that hold a token, a
\* node, column constraints or the invocation of a pragma; every other field is
\* a string, a bool, a keyword, a storage class or a schema/table container and
\* goes through serde
FieldType(type, f) ==
    IF <<type, f>> \in {<<"Expr", "literal">>, <<"Vacuum", "schema_name">>,
                        <<"Vacuum", "filename">>}
    THEN "Option<Token>"
    ELSE IF <<type, f>> \in {<<"BindParameter", "counter">>, <<"Expr", "bind">>,
                             <<"Alter", "add_column">>}
    THEN "Option<Node>"
    ELSE IF <<type, f>> \in {<<"Explain", "child">>, <<"Attach", "expr">>}
    THEN "Node"
    ELSE IF <<type, f>> = <<"ColumnDef", "constraints">>
    THEN "Vec<ColumnConstraint>"
    ELSE IF <<type, f>> = <<"Pragma", "invocation">>
    THEN "PragmaInvocation"
    ELSE "serde"

\* the key of a column constraint in its JSON object
ConstraintName(c) ==
    CASE c.kind = "PrimaryKey" -> "primary_key"
      [] c.kind = "NotNull" -> "not_null"
      [] c.kind = "Unique" -> "unique"
      [] c.kind = "Check" -> "check"
      [] c.kind = "Default" -> "default"
      [] c.kind = "Collate" -> "collate"
      [] c.kind = "Generated" -> "generated"
      [] c.kind = "As" -> "as"
      [] c.kind = "ForeignKey" -> "foreign_key"

\* the invocation of a pragma as a tagged variant: the name of the variant, and
\* for Assign and Call the value, a token field, as a token field is projected
PragmaInvocationAsSerializable(invocation) ==
    IF invocation.kind = "Query" THEN invocation
    ELSE [invocation EXCEPT !.value = TokenFieldAsSerializable(invocation.value)]

\* the invocation of a pragma built from its attributes: the value of Assign
\* and Call is Token::new of its kind
PragmaInvocationNew(invocation) ==
    IF invocation.kind = "Query" THEN invocation
    ELSE [invocation EXCEPT !.value = TokenNew(invocation.value.ttype, invocation.value.kw,
                                              invocation.value.text)]

RECURSIVE AsSerializable(_)
RECURSIVE ColumnConstraintAsSerializable(_)

\* impl FieldSerializable for Option<T>: None is Null, Some(n) is the value of n
OptionNodeAsSerializable(o) == IF o = None THEN None ELSE Some(AsSerializable(o[1]))

\* node!: as_serializable, the name of the node under "type" and every
\* declared field under its name; the token t of the node is not a field
AsSerializable(n) ==
    [f \in DOMAIN n \ {"t"} |->
        IF f = "type" THEN n.type
        ELSE IF FieldType(n.type, f) = "Option<Token>"
        THEN IF n[f] = None THEN None ELSE Some(TokenFieldAsSerializable(n[f][1]))
        ELSE IF FieldType(n.type, f) = "Option<Node>"
        THEN OptionNodeAsSerializable(n[f])
        ELSE IF FieldType(n.type, f) = "Node"
        THEN AsSerializable(n[f])
        ELSE IF FieldType(n.type, f) = "Vec<ColumnConstraint>"
        THEN [i \in 1..Len(n[f]) |-> ColumnConstraintAsSerializable(n[f][i])]
        ELSE IF FieldType(n.type, f) = "PragmaInvocation"
        THEN PragmaInvocationAsSerializable(n[f])
        ELSE n[f]]

\* impl FieldSerializable for ColumnConstraint
ColumnConstraintAsSerializable(c) ==
    [name |-> ConstraintName(c),
     inner |-> IF c.kind \in {"Check", "Generated", "As"}
               THEN [c EXCEPT !.expr = AsSerializable(c.expr)]
               ELSE IF c.kind = "Default"
               THEN [c EXCEPT !.expr = OptionNodeAsSerializable(c.expr),
                              !.literal = OptionNodeAsSerializable(c.literal)]
               ELSE c]

RECURSIVE New(_)
RECURSIVE ColumnConstraintNew(_)

\* Option<T> of a node built by new
OptionNew(o) == IF o = None THEN None ELSE Some(New(o[1]))

\* node!: new, the node as the tests build it: the token of the node is
\* Token::new(Type::InstructionExpect) and the tokens of its fields are
\* Token::new of their kind
New(n) ==
    [f \in DOMAIN n |->
        IF f = "t" THEN TokenNew("InstructionExpect", "", <<>>)
        ELSE IF f = "type" THEN n.type
        ELSE IF FieldType(n.type, f) = "Option<Token>"
        THEN IF n[f] = None THEN None
             ELSE Some(TokenNew(n[f][1].ttype, n[f][1].kw, n[f][1].text))
        ELSE IF FieldType(n.type, f) = "Option<Node>"
        THEN OptionNew(n[f])
        ELSE IF FieldType(n.type, f) = "Node"
        THEN New(n[f])
        ELSE IF FieldType(n.type, f) = "Vec<ColumnConstraint>"
        THEN [i \in 1..Len(n[f]) |-> ColumnConstraintNew(n[f][i])]
        ELSE IF FieldType(n.type, f) = "PragmaInvocation"
        THEN PragmaInvocationNew(n[f])
        ELSE n[f]]

\* the column constraint as the tests build it
ColumnConstraintNew(c) ==
    IF c.kind \in {"Check", "Generated", "As"}
    THEN [c EXCEPT !.expr = New(c.expr)]
    ELSE IF c.kind = "Default"
    THEN [c EXCEPT !.expr = OptionNew(c.expr), !.literal = OptionNew(c.literal)]
    ELSE c

\* the nodes parse() has collected
ParsedNodes == {parser.r[i] : i \in 1..Len(parser.r)}

====
